---------------------------- MODULE Spec2Model ----------------------------
(***************************************************************************)
(* Pi_Eyes: the UDP control core of the animatronic head.                  *)
(*                                                                         *)
(*   Eye Actor        src/eyes.py                                          *)
(*   Thermal Tracker  src/services/thermal_tracker/thermal_tracker.py      *)
(*                                                                         *)
(* Each component has its own specification (SpecEye, SpecThermal); the    *)
(* variables of the components a specification does not run keep their     *)
(* initial values.                                                         *)
(***************************************************************************)
EXTENDS Integers, Sequences, FiniteSets, TLC

VARIABLES
    \* ---- Eye Actor (src/eyes.py) ----
    auto_movement, auto_blink, auto_pupil,
    prev_auto_movement, prev_auto_blink, prev_auto_pupil,
    joystick_connected,
    joystick_x, joystick_y,                 \* hundredths, as parsed from "%.2f"
    left_eyelid_position, right_eyelid_position,   \* hundredths
    blink_left_active, blink_right_active,
    message_queue,                          \* decoded messages, FIFO
    udp_alive,                              \* the receive thread is still running
    \* history of the Eye Actor, read by the properties only
    pre_attach,                             \* auto_* held just before the controller became attached
    applied,                                \* flag commands applied since that attach
    \* ---- Thermal Tracker (src/services/thermal_tracker/thermal_tracker.py) ----
    running, tracking_active,
    smoothed_x, smoothed_y, last_sent_x, last_sent_y,   \* thousandths of [-1, +1]
    current_x, current_y, magnitude,        \* the status fields
    enable_detection_sound, detection_sound_file,
    sensor_pc,                              \* where sensor_loop stands
    pixels_valid,                           \* `pixels is not None` in the current iteration
    tick_x, tick_y, tick_magnitude,         \* x, y, magnitude of the current iteration
    stop_pc,                                \* where the main thread stands in stop()
    eye_port, sound_port,                   \* packets sent so far, in send order
    \* history of the tracker, read by the properties only
    ticks,                                  \* iterations of sensor_loop so far
    ever_above,                          \* some reading so far was above the threshold
    stop_found_tracking,                    \* tracking_active when stop() was called
    prev_read_failed,                       \* the read of the iteration before the current one failed
    \* ---- Sound Player (src/services/sound_player/sound_player.py) ----
    is_playing, current_file, stop_requested,
    playback_thread,                        \* the worker last started, 0 for None
    volume,                                 \* percent
    music_busy, music_file,                 \* pygame.mixer.music: get_busy() and the track loaded
    workers,                                \* each playback_worker thread: where it stands, its filepath
    main_pc,                                \* where the main thread stands in run()
    play_pending,                           \* the filepath of the play_sound call in progress
    \* history of the Sound Player, read by the properties only
    handled,                                \* datagrams received so far
    last_request,                           \* the last of them
    \* ---- Bundle file format (src/editor/animation_protocol.py) ----
    eye_data, mouth_data,                   \* the tracks handed to save_bundle
    audio_path, audio_content,              \* its audio_path, and the bytes of the audio file on disk
    bundle_file,                            \* the archive save_bundle wrote
    bundle,                                 \* what load_bundle returned
    file_pc,                                \* "recorded", "saved", "loaded"
    \* ---- Bundle Player (src/editor/bundlePlayer.py) ----
    player_eye_data, player_mouth_data,     \* BundlePlayer.eye_data, .mouth_data
    player_is_playing,                      \* BundlePlayer.is_playing
    current_time,                           \* ms
    current_audio,                          \* the temp file of the loaded audio, NoPath for None
    current_eye_x, current_eye_y,           \* tenths
    left_eye_closed, right_eye_closed,
    current_mouth_position,
    button_command_queue,
    button_command,                         \* the command the button thread is sending, and the sends left
    eye_socket_sent, mouth_socket_sent,     \* datagrams sent so far, in send order
    play_pc,                                \* where play_bundle stands: "idle", "start", "loop", "ended"
    loop,                                   \* play_bundle's argument
    clock,                                  \* ms since recording_start_time
    plays,                                  \* passes of play_bundle's outer loop so far
    temp_files,                             \* audio temp files on disk
    mixer_busy,                             \* pygame.mixer.music.get_busy()
    \* ---- Animation Daemon (src/editor/animationDaemon.py) ----
    status,                                 \* "idle", "playing"
    current_animation,                      \* file name, NoPath for None
    daemon_pc,                              \* "idle" in the MQTT loop, "playing" inside play_bundle
    messages,                               \* MQTT messages handled so far
    last_message,                           \* the message handled last
    prepare_calls, play_calls,              \* the paths prepare_bundle was called with, and of those played
    last_prepare,                           \* "none", "ok", "failed": what the last play command's prepare_bundle returned
    stop_clock,                             \* clock when a stop message not yet handled reached the client, -1 without one
    \* ---- Recorder (src/editor/eye_controller.py, mouth_controller.py) ----
    is_recording,
    recorded_data, record_queue,            \* samples <<session, time_ms>>
    recording_start_time,                   \* in passes of the controller loop
    now,                                    \* passes of the controller loop so far
    ctl_pc, ctl_state,                      \* controller thread: "loop" or "put" with the sample made
    writer_pc, writer_state,                \* memory_writer: "none", "loop", "append", "done"
    stop_pc_rec,                            \* stop_recording: "idle" or "join"
    session,                                \* recordings started so far
    \* ---- Mouth Actor (src/mouth.py) ----
    mouth_running,                          \* the main loop has not been left by an exception
    current_position,
    is_easing, ease_start_position,
    since_activity,                         \* loop passes since last_activity_time, up to IdleTimeout
    ease_elapsed,                           \* loop passes since ease_start_time, up to EaseDuration
    pulsewidth,                             \* the servo pulse width set last, 0 before the first
    commanded,                              \* who set the servo in the last step: "none", "udp", "ease"
    mouth_received, mouth_last,             \* datagrams received so far, and the last one
    \* ---- Eye Actor, the frame (src/eyes.py, frame) ----
    curX, curY,                             \* the rendered gaze, tenths of a degree
    startX, startY, destX, destY, isMoving, \* the autonomous saccade driver
    trackingPos,                            \* thousandths
    leftUpperLidWeight, leftLowerLidWeight,
    rightUpperLidWeight, rightLowerLidWeight,   \* thousandths
    frames,
    \* history of the frame, read by the properties only
    last_gaze,                              \* x, y of the 0x20 datagram received last
    last_left_lid,                          \* <<p>> of the 0x30 datagram received last, <<>> before it
                                            \* and once a blink command for the left eye has followed it
    last_blink,                             \* the blink datagram processed last, and whether it repeated
    \* ---- a value on its way through an encoder and a decoder ----
    calc_pc,                                \* "rest", "input", "sent", "decoded"
    calc_in,                                \* the value handed to the encoder
    calc_byte,                              \* the byte on the wire
    calc_out,                               \* what the decoder made of it
    \* ---- a BundlePlayer and the Eye Actor it drives ----
    player_running,                         \* BundlePlayer.running
    delivered,                              \* packets of eye_socket_sent the Eye Actor has taken
    \* ---- the editor recording one frame (src/editor/main.py) ----
    editor_pc,                              \* "closed", "recording", "ticked", "stopped", "saved", "loaded"
    audio_loaded,                           \* audio_player.is_loaded()
    editor_time,                            \* AnimationControlGUI.current_time, tenths of a ms
    time_is_float,                          \* current_time is a float, not an int
    time_cell,                              \* the time_ms cell written for the frame
    loaded_time_ms                          \* time_ms of the frame as loaded

eyeFlags == <<auto_movement, auto_blink, auto_pupil,
              prev_auto_movement, prev_auto_blink, prev_auto_pupil,
              joystick_connected>>
eyeGaze == <<joystick_x, joystick_y>>
eyeLids == <<left_eyelid_position, right_eyelid_position>>
eyeBlink == <<blink_left_active, blink_right_active>>
eyeNet == <<message_queue, udp_alive>>
eyeHist == <<pre_attach, applied>>
eyeVars == <<eyeFlags, eyeGaze, eyeLids, eyeBlink, eyeNet, eyeHist>>

trkState == <<tracking_active, smoothed_x, smoothed_y, last_sent_x, last_sent_y,
              current_x, current_y, magnitude>>
trkConfig == <<enable_detection_sound, detection_sound_file>>
trkLocals == <<pixels_valid, tick_x, tick_y, tick_magnitude>>
trkHist == <<ticks, ever_above, stop_found_tracking, prev_read_failed>>
trkVars == <<running, trkState, trkConfig, sensor_pc, trkLocals, stop_pc,
             eye_port, sound_port, trkHist>>

sndState == <<is_playing, current_file, stop_requested, playback_thread>>
sndMusic == <<music_busy, music_file>>
sndMain == <<main_pc, play_pending>>
sndHist == <<handled, last_request>>
sndVars == <<sndState, volume, sndMusic, workers, sndMain, sndHist>>

fileInputs == <<eye_data, mouth_data, audio_path, audio_content>>
fileVars == <<fileInputs, bundle_file, bundle, file_pc>>

bpTracks == <<player_eye_data, player_mouth_data>>
bpShown == <<current_eye_x, current_eye_y, left_eye_closed, right_eye_closed,
             current_mouth_position>>
bpButton == <<button_command_queue, button_command>>
bpSent == <<eye_socket_sent, mouth_socket_sent>>
bpAudio == <<current_audio, temp_files, mixer_busy>>
bpPlay == <<player_is_playing, current_time, play_pc, loop, clock, plays>>
bpVars == <<bpTracks, bpShown, bpButton, bpSent, bpAudio, bpPlay>>

dmnState == <<status, current_animation, daemon_pc>>
dmnHist == <<messages, last_message, prepare_calls, play_calls, last_prepare, stop_clock>>
dmnVars == <<dmnState, dmnHist>>

recVars == <<is_recording, recorded_data, record_queue, recording_start_time, now,
             ctl_pc, ctl_state, writer_pc, writer_state, stop_pc_rec, session>>

mthVars == <<mouth_running, current_position, is_easing, ease_start_position,
             since_activity, ease_elapsed, pulsewidth, commanded, mouth_received,
             mouth_last>>

saccade == <<startX, startY, destX, destY, isMoving>>
lidWeights == <<leftUpperLidWeight, leftLowerLidWeight,
                rightUpperLidWeight, rightLowerLidWeight>>
frmHist == <<last_gaze, last_left_lid, last_blink>>
frmVars == <<curX, curY, saccade, trackingPos, lidWeights, frames, frmHist>>

\* The recorder and the actors modelled after it.
calcVars == <<calc_pc, calc_in, calc_byte, calc_out>>

\* The components modelled last.
hndVars == <<player_running, delivered>>
edVars == <<editor_pc, audio_loaded, editor_time, time_is_float, time_cell,
            loaded_time_ms>>
lateVars == <<calcVars, hndVars, edVars>>

restVars == <<recVars, mthVars, frmVars, lateVars>>

\* What each component leaves alone: the variables of the others.
notEyeVars == <<trkVars, sndVars, fileVars, bpVars, dmnVars, restVars>>
notTrkVars == <<eyeVars, sndVars, fileVars, bpVars, dmnVars, restVars>>
notSndVars == <<eyeVars, trkVars, fileVars, bpVars, dmnVars, restVars>>
notFileVars == <<eyeVars, trkVars, sndVars, bpVars, dmnVars, restVars>>
notPlayerVars == <<eyeVars, trkVars, sndVars, fileVars, restVars>>
notBpVars == <<notPlayerVars, dmnVars>>
notRecVars == <<eyeVars, trkVars, sndVars, fileVars, bpVars, dmnVars, mthVars, frmVars, lateVars>>
notMthVars == <<eyeVars, trkVars, sndVars, fileVars, bpVars, dmnVars, recVars, frmVars, lateVars>>
notFrmVars == <<trkVars, sndVars, fileVars, bpVars, dmnVars, recVars, mthVars, lateVars>>
earlyVars == <<eyeVars, trkVars, sndVars, fileVars, bpVars, dmnVars, recVars, mthVars, frmVars>>
notCalcVars == <<earlyVars, hndVars, edVars>>
notEdVars == <<earlyVars, calcVars, hndVars>>

vars == <<eyeVars, trkVars, sndVars, fileVars, bpVars, dmnVars, restVars>>

\* ------------------------------------------------------------------ bounds

\* Messages the receive thread may have queued ahead of the render thread.
MaxQueue == 2

\* Iterations of the tracker's sensor loop.
MaxTicks == 4

\* Datagrams the Sound Player receives, which also bounds the playback
\* workers it starts.
MaxCommands == 2

\* Frames in a recorded track, and the latest frame time in steps of 50 ms.
MaxFrames == 2
MaxTime == 2

\* Milliseconds a playback that never reports its end is followed for, and
\* the passes of play_bundle's outer loop.
MaxClock == 160
MaxPlays == 2

\* MQTT messages the daemon is followed through.
MaxMessages == 2

\* Recordings started, and passes of the controller loop followed.
MaxSessions == 2
MaxNow == 3

\* Datagrams the Mouth Actor receives, and --idle-timeout and
\* --idle-ease-duration in passes of its main loop.
MaxDatagrams == 2
IdleTimeout == 2
EaseDuration == 4

\* Frames the Eye Actor renders.
MaxRenders == 2

\* Blink packets a player sends between its construction and its cleanup.
MaxBlinkPackets == 2

\* ---------------------------------------------------------- wire protocol

\* Datagrams the Eye Actor is sent under SpecEye: every policy command, one
\* gaze target, and the malformed shapes (empty, an opcode outside the
\* table, a gaze command cut short).
FlagDatagrams == {<<0>>, <<1>>, <<16>>, <<17>>, <<18>>, <<19>>, <<20>>, <<21>>}
MalformedDatagrams == {<<>>, <<80>>, <<32, 128>>}
CtlDatagrams == FlagDatagrams \cup {<<32, 128, 128>>} \cup MalformedDatagrams

\* f"{b/255:.2f}" read back by float(): the byte in hundredths, rounded to nearest
\* (b*100/255 is never a tie).
Hundredths(b) == (b * 200 + 255) \div 510

PayloadlessOpcodes == {0, 1, 16, 17, 18, 19, 20, 21, 64, 65, 66, 67, 68, 69}

\* decode_message raises: IndexError on data[0] of an empty datagram,
\* struct.error on a short payload, ValueError on an unknown opcode.
DecodeRaises(data) ==
    \/ Len(data) = 0
    \/ /\ Len(data) > 0
       /\ \/ data[1] = 32 /\ Len(data) < 3
          \/ data[1] \in {48, 49} /\ Len(data) < 2
          \/ data[1] \notin PayloadlessOpcodes \cup {32, 48, 49}

decode_messageMutBothEnd(data) ==
    CASE data[1] = 0 -> <<"joystick_disconnected">>
      [] data[1] = 1 -> <<"joystick_connected">>
      [] data[1] = 16 -> <<"auto_movement_off">>
      [] data[1] = 17 -> <<"auto_movement_on">>
      [] data[1] = 18 -> <<"auto_blink_off">>
      [] data[1] = 19 -> <<"auto_blink_on">>
      [] data[1] = 20 -> <<"auto_pupil_off">>
      [] data[1] = 21 -> <<"auto_pupil_on">>
      [] data[1] = 32 -> <<"joystick", Hundredths(data[2]), Hundredths(data[3])>>
      [] data[1] = 48 -> <<"left_eyelid", Hundredths(data[2])>>
      [] data[1] = 49 -> <<"right_eyelid", Hundredths(data[2])>>
      [] data[1] = 64 -> <<"blink_left_start">>
      [] data[1] = 65 -> <<"blink_both_end">>
      [] data[1] = 66 -> <<"blink_right_start">>
      [] data[1] = 67 -> <<"blink_right_end">>
      [] data[1] = 68 -> <<"blink_both_start">>
      [] data[1] = 69 -> <<"blink_both_end">>

decode_message(data) ==
    CASE data[1] = 0 -> <<"joystick_disconnected">>
      [] data[1] = 1 -> <<"joystick_connected">>
      [] data[1] = 16 -> <<"auto_movement_off">>
      [] data[1] = 17 -> <<"auto_movement_on">>
      [] data[1] = 18 -> <<"auto_blink_off">>
      [] data[1] = 19 -> <<"auto_blink_on">>
      [] data[1] = 20 -> <<"auto_pupil_off">>
      [] data[1] = 21 -> <<"auto_pupil_on">>
      [] data[1] = 32 -> <<"joystick", Hundredths(data[2]), Hundredths(data[3])>>
      [] data[1] = 48 -> <<"left_eyelid", Hundredths(data[2])>>
      [] data[1] = 49 -> <<"right_eyelid", Hundredths(data[2])>>
      [] data[1] = 64 -> <<"blink_left_start">>
      [] data[1] = 65 -> <<"blink_left_end">>
      [] data[1] = 66 -> <<"blink_right_start">>
      [] data[1] = 67 -> <<"blink_right_end">>
      [] data[1] = 68 -> <<"blink_both_start">>
      [] data[1] = 69 -> <<"blink_both_end">>

\* ------------------------------------------------------------- Eye Actor

\* One pass of udp_thread's loop that found a datagram.  decode_message runs
\* inside a try that catches socket.error only: any other exception ends the
\* thread.
udp_thread(data) ==
    /\ udp_alive
    /\ IF DecodeRaises(data)
         THEN /\ udp_alive' = FALSE
              /\ UNCHANGED message_queue
         ELSE /\ Len(message_queue) < MaxQueue
              /\ message_queue' = Append(message_queue, decode_message(data))
              /\ UNCHANGED udp_alive
    /\ UNCHANGED <<eyeFlags, eyeGaze, eyeLids, eyeBlink, eyeHist, notEyeVars>>

\* "joystick_connected"
OnConnectedMutNoForce ==
    /\ joystick_connected' = TRUE
    /\ prev_auto_movement' = auto_movement
    /\ prev_auto_blink' = auto_blink
    /\ prev_auto_pupil' = auto_pupil
    /\ UNCHANGED <<auto_movement, auto_blink, auto_pupil>>

OnConnected ==
    /\ joystick_connected' = TRUE
    /\ prev_auto_movement' = auto_movement
    /\ prev_auto_blink' = auto_blink
    /\ prev_auto_pupil' = auto_pupil
    /\ auto_movement' = FALSE
    /\ UNCHANGED <<auto_blink, auto_pupil>>

\* "joystick_disconnected"
OnDisconnectedMutNoRestore ==
    /\ joystick_connected' = FALSE
    /\ auto_blink' = prev_auto_blink
    /\ auto_pupil' = prev_auto_pupil
    /\ UNCHANGED <<auto_movement, prev_auto_movement, prev_auto_blink, prev_auto_pupil>>

OnDisconnected ==
    /\ joystick_connected' = FALSE
    /\ auto_movement' = prev_auto_movement
    /\ auto_blink' = prev_auto_blink
    /\ auto_pupil' = prev_auto_pupil
    /\ UNCHANGED <<prev_auto_movement, prev_auto_blink, prev_auto_pupil>>

\* "auto_movement_on" / "auto_movement_off"
OnAutoMovementMutLiveOnly(on) ==
    /\ IF joystick_connected
         THEN UNCHANGED <<auto_movement, prev_auto_movement>>
         ELSE auto_movement' = on /\ prev_auto_movement' = on
    /\ UNCHANGED <<auto_blink, auto_pupil, prev_auto_blink, prev_auto_pupil,
                   joystick_connected>>

OnAutoMovement(on) ==
    /\ auto_movement' = IF joystick_connected THEN auto_movement ELSE on
    /\ prev_auto_movement' = on
    /\ UNCHANGED <<auto_blink, auto_pupil, prev_auto_blink, prev_auto_pupil,
                   joystick_connected>>

\* "auto_blink_on" / "auto_blink_off"
OnAutoBlinkMutUnguarded(on) ==
    /\ auto_blink' = on
    /\ prev_auto_blink' = on
    /\ UNCHANGED <<auto_movement, auto_pupil, prev_auto_movement, prev_auto_pupil,
                   joystick_connected>>

OnAutoBlink(on) ==
    /\ auto_blink' = IF joystick_connected THEN auto_blink ELSE on
    /\ prev_auto_blink' = on
    /\ UNCHANGED <<auto_movement, auto_pupil, prev_auto_movement, prev_auto_pupil,
                   joystick_connected>>

\* "auto_pupil_on" / "auto_pupil_off"
OnAutoPupil(on) ==
    /\ auto_pupil' = IF joystick_connected THEN auto_pupil ELSE on
    /\ prev_auto_pupil' = on
    /\ UNCHANGED <<auto_movement, auto_blink, prev_auto_movement, prev_auto_blink,
                   joystick_connected>>

\* "joystick,x,y": taken only while a controller is attached
OnJoystick(x, y) ==
    IF joystick_connected
      THEN joystick_x' = x /\ joystick_y' = y
      ELSE UNCHANGED eyeGaze

\* The elif chain of process_udp_messages for one message.
ApplyMessage(m) ==
    CASE m[1] = "joystick_connected" ->
           OnConnected /\ UNCHANGED <<eyeGaze, eyeLids, eyeBlink>>
      [] m[1] = "joystick_disconnected" ->
           OnDisconnected /\ UNCHANGED <<eyeGaze, eyeLids, eyeBlink>>
      [] m[1] \in {"auto_movement_on", "auto_movement_off"} ->
           OnAutoMovement(m[1] = "auto_movement_on") /\ UNCHANGED <<eyeGaze, eyeLids, eyeBlink>>
      [] m[1] \in {"auto_blink_on", "auto_blink_off"} ->
           OnAutoBlink(m[1] = "auto_blink_on") /\ UNCHANGED <<eyeGaze, eyeLids, eyeBlink>>
      [] m[1] \in {"auto_pupil_on", "auto_pupil_off"} ->
           OnAutoPupil(m[1] = "auto_pupil_on") /\ UNCHANGED <<eyeGaze, eyeLids, eyeBlink>>
      [] m[1] = "left_eyelid" ->
           /\ left_eyelid_position' = m[2]
           /\ UNCHANGED <<right_eyelid_position, eyeFlags, eyeGaze, eyeBlink>>
      [] m[1] = "right_eyelid" ->
           /\ right_eyelid_position' = m[2]
           /\ UNCHANGED <<left_eyelid_position, eyeFlags, eyeGaze, eyeBlink>>
      [] m[1] = "joystick" ->
           OnJoystick(m[2], m[3]) /\ UNCHANGED <<eyeFlags, eyeLids, eyeBlink>>
      [] m[1] = "blink_left_start" ->
           blink_left_active' = TRUE
             /\ UNCHANGED <<blink_right_active, eyeFlags, eyeGaze, eyeLids>>
      [] m[1] = "blink_left_end" ->
           blink_left_active' = FALSE
             /\ UNCHANGED <<blink_right_active, eyeFlags, eyeGaze, eyeLids>>
      [] m[1] = "blink_right_start" ->
           blink_right_active' = TRUE
             /\ UNCHANGED <<blink_left_active, eyeFlags, eyeGaze, eyeLids>>
      [] m[1] = "blink_right_end" ->
           blink_right_active' = FALSE
             /\ UNCHANGED <<blink_left_active, eyeFlags, eyeGaze, eyeLids>>
      [] m[1] = "blink_both_start" ->
           blink_left_active' = TRUE /\ blink_right_active' = TRUE
             /\ UNCHANGED <<eyeFlags, eyeGaze, eyeLids>>
      [] m[1] = "blink_both_end" ->
           blink_left_active' = FALSE /\ blink_right_active' = FALSE
             /\ UNCHANGED <<eyeFlags, eyeGaze, eyeLids>>

\* The flag commands, which the history records.
IsFlagMessage(m) ==
    m[1] \in {"joystick_connected", "joystick_disconnected",
              "auto_movement_on", "auto_movement_off",
              "auto_blink_on", "auto_blink_off",
              "auto_pupil_on", "auto_pupil_off"}

\* The history after m is applied: `applied` restarts at each attach of a
\* detached actor and holds the flag commands since, three at most (a longer
\* run is recorded as <<"...">>).
RecordApplied(m) ==
    IF ~IsFlagMessage(m)
      THEN UNCHANGED eyeHist
      ELSE IF ~joystick_connected
        THEN /\ applied' = IF m[1] = "joystick_connected" THEN <<m[1]>> ELSE <<>>
             /\ pre_attach' = IF m[1] = "joystick_connected"
                                THEN [movement |-> auto_movement,
                                      blink |-> auto_blink,
                                      pupil |-> auto_pupil]
                                ELSE pre_attach
        ELSE /\ applied' = IF applied = <<"...">> \/ Len(applied) >= 3
                             THEN <<"...">>
                             ELSE Append(applied, m[1])
             /\ UNCHANGED pre_attach

\* One iteration of the drain loop of process_udp_messages.
process_udp_messages ==
    /\ message_queue # <<>>
    /\ message_queue' = Tail(message_queue)
    /\ ApplyMessage(Head(message_queue))
    /\ RecordApplied(Head(message_queue))
    /\ UNCHANGED udp_alive
    /\ UNCHANGED notEyeVars

InitEye ==
    /\ auto_movement = TRUE /\ auto_blink = TRUE /\ auto_pupil = TRUE
    /\ prev_auto_movement = TRUE /\ prev_auto_blink = TRUE /\ prev_auto_pupil = TRUE
    /\ joystick_connected = FALSE
    /\ joystick_x = 0 /\ joystick_y = 0
    /\ left_eyelid_position = 0 /\ right_eyelid_position = 0
    /\ blink_left_active = FALSE /\ blink_right_active = FALSE
    /\ message_queue = <<>>
    /\ udp_alive = TRUE
    /\ pre_attach = [movement |-> TRUE, blink |-> TRUE, pupil |-> TRUE]
    /\ applied = <<>>

EyeReceive == \E data \in CtlDatagrams : udp_thread(data)

NextEye ==
    \/ EyeReceive
    \/ process_udp_messages


\* -------------------------------------------------------- Thermal Tracker
\* Temperatures are hundredths of a degree, positions thousandths of the
\* [-1, +1] range; float arithmetic is carried in these fixed-point units,
\* rounding down.

\* Constructor defaults, in the model's units: sensitivity 5.0 in tenths,
\* position_threshold 0.05 in thousandths, smoothing 0.7 in hundredths,
\* detection_threshold 5.0 in hundredths of a degree.
Sensitivity == 50
PositionThreshold == 50
Smoothing == 70
DetectionThreshold == 500

Clamp(v, lo, hi) == IF v < lo THEN lo ELSE IF v > hi THEN hi ELSE v
Abs(v) == IF v < 0 THEN -v ELSE v

\* Twice the x_pos / y_pos of column c / row r (3.5 down to -3.5).
Pos2(c) == 7 - 2 * c

\* The sum of pixels[row * 8 + col] over columns col..7, each weighted by
\* twice its x_pos when byX, else unweighted.
RECURSIVE RowSum(_, _, _, _)
RowSum(pixels, row, col, byX) ==
    IF col > 7 THEN 0
    ELSE (IF byX THEN Pos2(col) ELSE 1) * pixels[row * 8 + col]
         + RowSum(pixels, row, col + 1, byX)

\* `x += x_pos * pixel_temp` over the 64 pixels, doubled.
RECURSIVE WeightedX(_, _)
WeightedX(pixels, row) ==
    IF row > 7 THEN 0
    ELSE RowSum(pixels, row, 0, TRUE) + WeightedX(pixels, row + 1)

\* `y += y_pos * pixel_temp` over the 64 pixels, doubled.
RECURSIVE WeightedY(_, _)
WeightedY(pixels, row) ==
    IF row > 7 THEN 0
    ELSE Pos2(row) * RowSum(pixels, row, 0, FALSE) + WeightedY(pixels, row + 1)

\* max_val, which starts at 0.0
MaxVal(pixels) ==
    LET seen == {pixels[i] : i \in 0..63} \cup {0}
    IN  CHOOSE m \in seen : \A t \in seen : t <= m

\* calculate_gaze_direction: [x, y, magnitude]
calculate_gaze_direction(pixels) ==
    [x |-> Clamp((50 * WeightedX(pixels, 0)) \div (64 * Sensitivity), -1000, 1000),
     y |-> Clamp((-(50 * WeightedY(pixels, 0))) \div (64 * Sensitivity), -1000, 1000),
     magnitude |-> Clamp(MaxVal(pixels) - 2000, 0, 5000)]

\* The byte send_eye_position packs for v: int((v + 1.0) * 127.5), clamped.
EyeByte(v) == Clamp(((v + 1000) * 1275) \div 10000, 0, 255)

Packet(src, data) == [src |-> src, data |-> data]

\* send_eye_position / connect_controller / disconnect_controller, as the
\* packet each puts on the eye port.
EyePositionPacket(src, x, y) == Packet(src, <<32, EyeByte(x), EyeByte(y)>>)
ConnectPacket(src) == Packet(src, <<1>>)
DisconnectPacket(src) == Packet(src, <<0>>)

\* trigger_detection_sound: the packets it puts on the sound port.
DetectionSoundPacketsMutAlwaysRandom ==
    IF ~enable_detection_sound THEN <<>>
    ELSE <<Packet("sensor", <<97>>)>>

DetectionSoundPackets ==
    IF ~enable_detection_sound THEN <<>>
    ELSE IF detection_sound_file # ""
      THEN <<Packet("sensor", <<96, detection_sound_file, 0>>)>>
      ELSE <<Packet("sensor", <<97>>)>>

\* Readings get_thermal_pixels can return: 64 temperatures, or None when the
\* sensor read raised.
Uniform(t) == [i \in 0..63 |-> t]
HotSpot(row, col, t) == [i \in 0..63 |-> IF i = row * 8 + col THEN t ELSE 2000]
NoReading == [failed |-> TRUE, pixels |-> Uniform(0)]
Reading(p) == [failed |-> FALSE, pixels |-> p]
Readings ==
    {NoReading,
     Reading(Uniform(2000)),           \* 20.0 everywhere: magnitude 0
     Reading(Uniform(2500)),           \* 25.0 everywhere: magnitude 5.0, the threshold itself
     Reading(HotSpot(2, 5, 4000)),     \* one 40.0 pixel at row 2, column 5
     Reading(HotSpot(7, 7, 2600)),     \* one 26.0 pixel in the last corner
     Reading(HotSpot(2, 2, 3600)),     \* one 36.0 pixel at row 2, column 2
     Reading(HotSpot(0, 0, 8000))}     \* one 80.0 pixel in the first corner

\* `if magnitude > self.detection_threshold`
DetectedMutInclusive(m) == m >= DetectionThreshold

Detected(m) == m > DetectionThreshold

\* start(): the flag is raised and the sensor thread started.
start ==
    /\ sensor_pc = "new"
    /\ running' = TRUE
    /\ sensor_pc' = "begin"
    /\ UNCHANGED <<trkState, trkConfig, trkLocals, stop_pc, eye_port, sound_port,
                   trkHist, notTrkVars>>

\* sensor_loop before its while: the initial disconnect.
SensorBegin ==
    /\ sensor_pc = "begin"
    /\ eye_port' = Append(eye_port, DisconnectPacket("sensor"))
    /\ sensor_pc' = "while"
    /\ UNCHANGED <<running, trkState, trkConfig, trkLocals, stop_pc, sound_port,
                   trkHist, notTrkVars>>

\* `while self.running`
SensorWhile ==
    /\ sensor_pc = "while"
    /\ IF running
         THEN /\ ticks < MaxTicks
              /\ sensor_pc' = "body"
         ELSE sensor_pc' = "done"
    /\ UNCHANGED <<running, trkState, trkConfig, trkLocals, stop_pc, eye_port,
                   sound_port, trkHist, notTrkVars>>

\* First tracking frame, up to tracking_active = True; the rest of the branch
\* is SensorFirst.
BodyTakeoverMutNoConnect(g) ==
    /\ smoothed_x' = g.x /\ smoothed_y' = g.y
    /\ tracking_active' = TRUE
    /\ sensor_pc' = "first"
    /\ UNCHANGED <<eye_port, last_sent_x, last_sent_y, current_x, current_y, magnitude>>

BodyTakeover(g) ==
    /\ smoothed_x' = g.x /\ smoothed_y' = g.y
    /\ eye_port' = Append(eye_port, ConnectPacket("sensor"))
    /\ tracking_active' = TRUE
    /\ sensor_pc' = "first"
    /\ UNCHANGED <<last_sent_x, last_sent_y, current_x, current_y, magnitude>>

\* A later tracking frame: smooth, send when the change is large enough.
BodyTrackMutReconnect(g) ==
    LET sx == (smoothed_x * Smoothing + g.x * (100 - Smoothing)) \div 100
        sy == (smoothed_y * Smoothing + g.y * (100 - Smoothing)) \div 100
    IN  /\ smoothed_x' = sx /\ smoothed_y' = sy
        /\ eye_port' = eye_port \o <<ConnectPacket("sensor"),
                                     EyePositionPacket("sensor", sx, sy)>>
        /\ last_sent_x' = sx /\ last_sent_y' = sy
        /\ current_x' = g.x /\ current_y' = g.y /\ magnitude' = g.magnitude
        /\ sensor_pc' = "while"
        /\ UNCHANGED tracking_active

BodyTrackMutStrict(g) ==
    LET sx == (smoothed_x * Smoothing + g.x * (100 - Smoothing)) \div 100
        sy == (smoothed_y * Smoothing + g.y * (100 - Smoothing)) \div 100
        dx == Abs(sx - last_sent_x)
        dy == Abs(sy - last_sent_y)
    IN  /\ smoothed_x' = sx /\ smoothed_y' = sy
        /\ IF dx > PositionThreshold \/ dy > PositionThreshold
             THEN /\ last_sent_x' = sx /\ last_sent_y' = sy
                  /\ eye_port' = Append(eye_port, EyePositionPacket("sensor", sx, sy))
             ELSE UNCHANGED <<last_sent_x, last_sent_y, eye_port>>
        /\ current_x' = g.x /\ current_y' = g.y /\ magnitude' = g.magnitude
        /\ sensor_pc' = "while"
        /\ UNCHANGED tracking_active

BodyTrack(g) ==
    LET sx == (smoothed_x * Smoothing + g.x * (100 - Smoothing)) \div 100
        sy == (smoothed_y * Smoothing + g.y * (100 - Smoothing)) \div 100
        dx == Abs(sx - last_sent_x)
        dy == Abs(sy - last_sent_y)
    IN  /\ smoothed_x' = sx /\ smoothed_y' = sy
        /\ IF dx >= PositionThreshold \/ dy >= PositionThreshold
             THEN /\ last_sent_x' = sx /\ last_sent_y' = sy
                  /\ eye_port' = Append(eye_port, EyePositionPacket("sensor", sx, sy))
             ELSE UNCHANGED <<last_sent_x, last_sent_y, eye_port>>
        /\ current_x' = g.x /\ current_y' = g.y /\ magnitude' = g.magnitude
        /\ sensor_pc' = "while"
        /\ UNCHANGED tracking_active

\* No detection, or no reading: release the eyes if they were taken.
BodyReleaseMutKeepTracking ==
    /\ IF tracking_active
         THEN /\ eye_port' = Append(eye_port, EyePositionPacket("sensor", last_sent_x, last_sent_y))
              /\ UNCHANGED tracking_active
         ELSE UNCHANGED <<eye_port, tracking_active>>
    /\ sensor_pc' = "while"
    /\ UNCHANGED <<smoothed_x, smoothed_y, last_sent_x, last_sent_y,
                   current_x, current_y, magnitude>>

BodyRelease ==
    /\ IF tracking_active
         THEN /\ eye_port' = Append(eye_port, DisconnectPacket("sensor"))
              /\ tracking_active' = FALSE
         ELSE UNCHANGED <<eye_port, tracking_active>>
    /\ sensor_pc' = "while"
    /\ UNCHANGED <<smoothed_x, smoothed_y, last_sent_x, last_sent_y,
                   current_x, current_y, magnitude>>

\* One iteration of sensor_loop on the reading r.
SensorBody(r) ==
    /\ sensor_pc = "body"
    /\ ticks' = ticks + 1
    /\ prev_read_failed' = (ticks > 0 /\ ~pixels_valid)
    /\ LET g == calculate_gaze_direction(r.pixels)
       IN  IF r.failed
             THEN /\ pixels_valid' = FALSE
                  /\ BodyRelease
                  /\ UNCHANGED <<tick_x, tick_y, tick_magnitude, ever_above>>
             ELSE /\ pixels_valid' = TRUE
                  /\ tick_x' = g.x /\ tick_y' = g.y /\ tick_magnitude' = g.magnitude
                  /\ ever_above' = (ever_above \/ g.magnitude > DetectionThreshold)
                  /\ IF Detected(g.magnitude)
                       THEN IF ~tracking_active THEN BodyTakeover(g) ELSE BodyTrack(g)
                       ELSE BodyRelease
    /\ UNCHANGED <<running, trkConfig, stop_pc, sound_port, stop_found_tracking, notTrkVars>>

\* The rest of the first tracking frame: the detection sound, the forced
\* position update, the status fields.
SensorFirst ==
    /\ sensor_pc = "first"
    /\ sound_port' = sound_port \o DetectionSoundPackets
    /\ last_sent_x' = tick_x /\ last_sent_y' = tick_y
    /\ eye_port' = Append(eye_port, EyePositionPacket("sensor", tick_x, tick_y))
    /\ current_x' = tick_x /\ current_y' = tick_y /\ magnitude' = tick_magnitude
    /\ sensor_pc' = "while"
    /\ UNCHANGED <<running, tracking_active, smoothed_x, smoothed_y, trkConfig,
                   trkLocals, stop_pc, trkHist, notTrkVars>>

\* stop(), statement by statement; the sensor thread runs between them.
StopFlag ==
    /\ stop_pc = "serving"
    /\ sensor_pc # "new"
    /\ running' = FALSE
    /\ stop_found_tracking' = tracking_active
    /\ stop_pc' = "disconnect"
    /\ UNCHANGED <<trkState, trkConfig, sensor_pc, trkLocals, eye_port, sound_port,
                   ticks, ever_above, prev_read_failed, notTrkVars>>

StopDisconnect ==
    /\ stop_pc = "disconnect"
    /\ eye_port' = Append(eye_port, DisconnectPacket("stop"))
    /\ stop_pc' = "clear"
    /\ UNCHANGED <<running, trkState, trkConfig, sensor_pc, trkLocals, sound_port,
                   trkHist, notTrkVars>>

StopClear ==
    /\ stop_pc = "clear"
    /\ tracking_active' = FALSE
    /\ stop_pc' = "join"
    /\ UNCHANGED <<running, smoothed_x, smoothed_y, last_sent_x, last_sent_y,
                   current_x, current_y, magnitude, trkConfig, sensor_pc, trkLocals,
                   eye_port, sound_port, trkHist, notTrkVars>>

\* sensor_thread.join: the loop ends within one iteration, well inside the 2 s.
StopJoin ==
    /\ stop_pc = "join"
    /\ sensor_pc = "done"
    /\ stop_pc' = "stopped"
    /\ UNCHANGED <<running, trkState, trkConfig, sensor_pc, trkLocals, eye_port,
                   sound_port, trkHist, notTrkVars>>

InitThermal ==
    /\ running = FALSE
    /\ tracking_active = FALSE
    /\ smoothed_x = 0 /\ smoothed_y = 0
    /\ last_sent_x = 0 /\ last_sent_y = 0
    /\ current_x = 0 /\ current_y = 0 /\ magnitude = 0
    /\ enable_detection_sound \in BOOLEAN
    /\ detection_sound_file \in {"", "boo.mp3"}
    /\ sensor_pc = "new"
    /\ pixels_valid = FALSE
    /\ tick_x = 0 /\ tick_y = 0 /\ tick_magnitude = 0
    /\ stop_pc = "serving"
    /\ eye_port = <<>>
    /\ sound_port = <<>>
    /\ ticks = 0
    /\ ever_above = FALSE
    /\ stop_found_tracking = FALSE
    /\ prev_read_failed = FALSE

SensorRead == \E r \in Readings : SensorBody(r)

NextThermal ==
    \/ start
    \/ SensorBegin
    \/ SensorWhile
    \/ SensorRead
    \/ SensorFirst
    \/ StopFlag
    \/ StopDisconnect
    \/ StopClear
    \/ StopJoin


\* ------------------------------------------------------------ Sound Player
\* Paths are written relative to sounds_dir; "" is sounds_dir itself.

\* What is on disk: one sound file, the random directory (by default a
\* subdirectory of sounds_dir) and the one file in it.
SoundFiles == {"a.wav"}
SoundSubdirs == {"random"}
RandomFiles == {"random/r.mp3"}

\* Path.exists()
Exists(path) == path = "" \/ path \in SoundFiles \cup SoundSubdirs \cup RandomFiles

\* pygame.mixer.music.load succeeds
Loadable(path) == path \in SoundFiles \cup RandomFiles

Extensions == <<".mp3", ".wav", ".ogg", ".flac">>

NoPath == "None"
NoMessage == <<"None">>
BadUtf8 == "\\xff"

\* Datagrams the Sound Player is sent.  The filename of a 0x60 is one
\* element, the NUL that ends it the next.
SoundDatagrams ==
    {<<96, "a", 0>>, <<96, "nope", 0>>, <<96, "random", 0>>, <<96, "", 0>>,
     <<96, BadUtf8, 0>>, <<96>>,
     <<97>>, <<98>>, <<99, 40>>, <<99>>, <<>>, <<112>>}

\* SoundPlayer.decode_message
sound_decode_message(data) ==
    IF Len(data) < 1 THEN NoMessage
    ELSE CASE data[1] = 96 ->
                IF Len(data) < 2 \/ data[2] = BadUtf8
                  THEN NoMessage
                  ELSE <<"play_specific", data[2]>>
           [] data[1] = 97 -> <<"play_random">>
           [] data[1] = 98 -> <<"stop">>
           [] data[1] = 99 ->
                IF Len(data) < 2 THEN NoMessage ELSE <<"set_volume", data[2]>>
           [] OTHER -> NoMessage

\* play_specific's search: the name as given, then with each extension.
Candidates(filename) == {i \in 1..Len(Extensions) : Exists(filename \o Extensions[i])}

ResolveSpecific(filename) ==
    IF Exists(filename) \/ Candidates(filename) = {}
      THEN filename
      ELSE filename \o Extensions[CHOOSE i \in Candidates(filename) :
                                     \A j \in Candidates(filename) : i <= j]

Alive(w) == workers[w].pc \notin {"unborn", "dead"}

\* stop_sound up to music.stop(): `if self.is_playing: self.stop_requested = True`;
\* filepath is the file play_sound goes on with, NoPath for the stop command.
BeginStopSound(filepath) ==
    /\ play_pending' = filepath
    /\ IF is_playing
         THEN /\ stop_requested' = TRUE
              /\ main_pc' = "stop_music"
         ELSE /\ UNCHANGED stop_requested
              /\ main_pc' = IF filepath = NoPath THEN "recv" ELSE "spawn"
    /\ UNCHANGED <<is_playing, current_file, playback_thread, volume, sndMusic, workers>>

\* play_sound: the existence check, then stop_sound.
play_sound(filepath) ==
    IF ~Exists(filepath)
      THEN UNCHANGED <<sndState, volume, sndMusic, workers, sndMain>>
      ELSE BeginStopSound(filepath)

play_specificMutStopFirst(filename) ==
    BeginStopSound(IF Exists(ResolveSpecific(filename))
                     THEN ResolveSpecific(filename)
                     ELSE NoPath)

play_specific(filename) ==
    IF Exists(ResolveSpecific(filename))
      THEN play_sound(ResolveSpecific(filename))
      ELSE UNCHANGED <<sndState, volume, sndMusic, workers, sndMain>>

play_random ==
    IF RandomFiles = {}
      THEN UNCHANGED <<sndState, volume, sndMusic, workers, sndMain>>
      ELSE \E selected_file \in RandomFiles : play_sound(selected_file)

set_volume(v) ==
    /\ volume' = IF v > 100 THEN 100 ELSE v
    /\ UNCHANGED <<sndState, sndMusic, workers, sndMain>>

\* One pass of run()'s loop that found a datagram, up to the first point
\* where the main thread can be overtaken by a worker.
SoundReceive(data) ==
    /\ main_pc = "recv"
    /\ handled < MaxCommands
    /\ handled' = handled + 1
    /\ last_request' = data
    /\ LET message == sound_decode_message(data)
       IN  CASE message[1] = "play_specific" ->
                  play_specific(message[2]) /\ UNCHANGED volume
             [] message[1] = "play_random" -> play_random /\ UNCHANGED volume
             [] message[1] = "stop" -> BeginStopSound(NoPath)
             [] message[1] = "set_volume" -> set_volume(message[2])
             [] OTHER -> UNCHANGED <<sndState, volume, sndMusic, workers, sndMain>>
    /\ UNCHANGED notSndVars

\* stop_sound: pygame.mixer.music.stop(), then the test before the join.
SoundStopMusic ==
    /\ main_pc = "stop_music"
    /\ music_busy' = FALSE
    /\ main_pc' = IF playback_thread # 0 /\ Alive(playback_thread)
                    THEN "join"
                    ELSE IF play_pending = NoPath THEN "recv" ELSE "spawn"
    /\ UNCHANGED <<sndState, volume, music_file, workers, play_pending, sndHist, notSndVars>>

\* playback_thread.join(timeout=1.0) returns: the worker has exited, or the
\* second has passed; it passes on a worker that is waiting for its track to
\* end and has not seen the stop request.
SoundJoin ==
    /\ main_pc = "join"
    /\ \/ ~Alive(playback_thread)
       \/ /\ workers[playback_thread].pc = "poll"
          /\ music_busy /\ ~stop_requested
    /\ main_pc' = IF play_pending = NoPath THEN "recv" ELSE "spawn"
    /\ UNCHANGED <<sndState, volume, sndMusic, workers, play_pending, sndHist, notSndVars>>

\* play_sound after stop_sound: the worker thread is created and started.
SoundSpawn ==
    /\ main_pc = "spawn"
    /\ LET w == handled
       IN  /\ workers' = [workers EXCEPT ![w] = [pc |-> "start", filepath |-> play_pending]]
           /\ playback_thread' = w
    /\ main_pc' = "recv"
    /\ play_pending' = NoPath
    /\ UNCHANGED <<is_playing, current_file, stop_requested, volume, sndMusic,
                   sndHist, notSndVars>>

\* playback_worker, statement by statement.
WorkerStart(w) ==
    /\ workers[w].pc = "start"
    /\ is_playing' = TRUE
    /\ workers' = [workers EXCEPT ![w].pc = "file"]
    /\ UNCHANGED <<current_file, stop_requested, playback_thread, volume, sndMusic,
                   sndMain, sndHist, notSndVars>>

WorkerFile(w) ==
    /\ workers[w].pc = "file"
    /\ current_file' = workers[w].filepath
    /\ workers' = [workers EXCEPT ![w].pc = "clear"]
    /\ UNCHANGED <<is_playing, stop_requested, playback_thread, volume, sndMusic,
                   sndMain, sndHist, notSndVars>>

WorkerClear(w) ==
    /\ workers[w].pc = "clear"
    /\ stop_requested' = FALSE
    /\ workers' = [workers EXCEPT ![w].pc = "load"]
    /\ UNCHANGED <<is_playing, current_file, playback_thread, volume, sndMusic,
                   sndMain, sndHist, notSndVars>>

\* music.load and music.play; load raises on what is not a sound file, which
\* takes the worker to its finally.
WorkerLoad(w) ==
    /\ workers[w].pc = "load"
    /\ IF Loadable(workers[w].filepath)
         THEN /\ music_busy' = TRUE
              /\ music_file' = workers[w].filepath
              /\ workers' = [workers EXCEPT ![w].pc = "poll"]
         ELSE /\ UNCHANGED sndMusic
              /\ workers' = [workers EXCEPT ![w].pc = "finally"]
    /\ UNCHANGED <<sndState, volume, sndMain, sndHist, notSndVars>>

\* `while get_busy() and not stop_requested` found false
WorkerPoll(w) ==
    /\ workers[w].pc = "poll"
    /\ ~(music_busy /\ ~stop_requested)
    /\ workers' = [workers EXCEPT ![w].pc = "finally"]
    /\ UNCHANGED <<sndState, volume, sndMusic, sndMain, sndHist, notSndVars>>

WorkerFinally(w) ==
    /\ workers[w].pc = "finally"
    /\ is_playing' = FALSE
    /\ workers' = [workers EXCEPT ![w].pc = "file_none"]
    /\ UNCHANGED <<current_file, stop_requested, playback_thread, volume, sndMusic,
                   sndMain, sndHist, notSndVars>>

WorkerFileNone(w) ==
    /\ workers[w].pc = "file_none"
    /\ current_file' = NoPath
    /\ workers' = [workers EXCEPT ![w].pc = "dead"]
    /\ UNCHANGED <<is_playing, stop_requested, playback_thread, volume, sndMusic,
                   sndMain, sndHist, notSndVars>>

\* The track comes to its end.
MusicEnds ==
    /\ music_busy
    /\ music_busy' = FALSE
    /\ UNCHANGED <<sndState, volume, music_file, workers, sndMain, sndHist, notSndVars>>

InitSound ==
    /\ is_playing = FALSE
    /\ current_file = NoPath
    /\ stop_requested = FALSE
    /\ playback_thread = 0
    /\ volume = 100
    /\ music_busy = FALSE
    /\ music_file = NoPath
    /\ workers = [w \in 1..MaxCommands |-> [pc |-> "unborn", filepath |-> NoPath]]
    /\ main_pc = "recv"
    /\ play_pending = NoPath
    /\ handled = 0
    /\ last_request = <<>>

SoundRecv == \E data \in SoundDatagrams : SoundReceive(data)
WorkerStartAny == \E w \in 1..MaxCommands : WorkerStart(w)
WorkerFileAny == \E w \in 1..MaxCommands : WorkerFile(w)
WorkerClearAny == \E w \in 1..MaxCommands : WorkerClear(w)
WorkerLoadAny == \E w \in 1..MaxCommands : WorkerLoad(w)
WorkerPollAny == \E w \in 1..MaxCommands : WorkerPoll(w)
WorkerFinallyAny == \E w \in 1..MaxCommands : WorkerFinally(w)
WorkerFileNoneAny == \E w \in 1..MaxCommands : WorkerFileNone(w)

NextSound ==
    \/ SoundRecv
    \/ SoundStopMusic
    \/ SoundJoin
    \/ SoundSpawn
    \/ WorkerStartAny
    \/ WorkerFileAny
    \/ WorkerClearAny
    \/ WorkerLoadAny
    \/ WorkerPollAny
    \/ WorkerFinallyAny
    \/ WorkerFileNoneAny
    \/ MusicEnds


\* ----------------------------------------------------- Bundle file format
\* A CSV cell is its text, a sequence of symbols: the digits and the point
\* one by one, every other word ("eye", "True", "None", a column name) as one
\* symbol.  Floats are carried in tenths.

\* time_ms, in steps of 50 ms
FrameTimes == {k * 50 : k \in 0..MaxTime}

\* (x, y, left_blink, right_blink, both_eyes) of the recorded eye samples, and
\* the recorded mouth positions.
EyeSamples == {<<5, 0, FALSE, FALSE, FALSE>>, <<10, 3, TRUE, FALSE, TRUE>>}
MouthPositions == {0, 128}

IncreasingTimes(n) ==
    {ts \in [1..n -> FrameTimes] : \A i, j \in 1..n : i < j => ts[i] < ts[j]}

\* The tracks the recorder can hand over: strictly increasing in time_ms.
EyeTracks ==
    UNION {{[i \in 1..n |-> <<ts[i]>> \o vs[i]] :
              ts \in IncreasingTimes(n), vs \in [1..n -> EyeSamples]} :
           n \in 0..MaxFrames}
MouthTracks ==
    UNION {{[i \in 1..n |-> <<ts[i], ps[i]>>] :
              ts \in IncreasingTimes(n), ps \in [1..n -> MouthPositions]} :
           n \in 0..MaxFrames}

\* audio_path: none, a file that is there, a file that is not.
AudioPaths == {"", "clips/voice.wav", "clips/gone.wav"}
AudioContents == {<<>>, <<82, 73, 70, 70>>}
PathExists(path) == path = "clips/voice.wav"

DigitChars == <<"0", "1", "2", "3", "4", "5", "6", "7", "8", "9">>
DigitSet == {DigitChars[i] : i \in 1..10}
DigitValue(c) == (CHOOSE i \in 1..10 : DigitChars[i] = c) - 1

\* str() of a non-negative int
RECURSIVE IntText(_)
IntText(n) ==
    IF n < 10 THEN <<DigitChars[n + 1]>>
    ELSE IntText(n \div 10) \o <<DigitChars[(n % 10) + 1]>>

\* repr() of a float given in tenths: 5 is "0.5", 10 is "1.0"
FloatText(v) == IntText(v \div 10) \o <<".">> \o <<DigitChars[(v % 10) + 1]>>

BoolText(b) == IF b THEN <<"True">> ELSE <<"False">>

\* csv.writer writes None as the empty string
NoneText == <<>>

Word(w) == <<w>>

\* The five eye value cells of a frame tuple.
EyeCells(frame) ==
    <<FloatText(frame[2]), FloatText(frame[3]),
      BoolText(frame[4]), BoolText(frame[5]), BoolText(frame[6])>>

EyeColumns ==
    <<Word("eye_x"), Word("eye_y"), Word("left_eye_closed"),
      Word("right_eye_closed"), Word("both_eyes_closed")>>

\* The header both writers produce.
Header(eyes, mouths) ==
    <<Word("time_ms"), Word("type")>>
      \o (IF eyes # <<>> THEN EyeColumns ELSE <<>>)
      \o (IF mouths # <<>> THEN <<Word("mouth_position")>> ELSE <<>>)

EyeRow(frame, mouths) ==
    <<IntText(frame[1]), Word("eye")>> \o EyeCells(frame)
      \o (IF mouths # <<>> THEN <<NoneText>> ELSE <<>>)

MouthRowMutShort(frame, eyes) ==
    <<IntText(frame[1]), Word("mouth"), IntText(frame[2])>>

MouthRow(frame, eyes) ==
    IF eyes # <<>>
      THEN <<IntText(frame[1]), Word("mouth"),
             NoneText, NoneText, NoneText, NoneText, NoneText, IntText(frame[2])>>
      ELSE <<IntText(frame[1]), Word("mouth"), IntText(frame[2])>>

EyeRows(eyes, mouths) == [i \in 1..Len(eyes) |-> EyeRow(eyes[i], mouths)]
MouthRows(eyes, mouths) == [i \in 1..Len(mouths) |-> MouthRow(mouths[i], eyes)]

\* An archive entry that holds bytes, and the entry that is not there.
Entry(bytes) == [present |-> TRUE, bytes |-> bytes]
NoEntry == [present |-> FALSE, bytes |-> <<>>]

NoManifest == [version |-> "", audio_file |-> "null", audio_format |-> "null",
               frame_count |-> 0]

Basename(path) == IF path = "clips/voice.wav" THEN "voice.wav"
                  ELSE IF path = "clips/gone.wav" THEN "gone.wav" ELSE path
Extension(path) == IF path = "" THEN "" ELSE "wav"

\* save_bundle: the archive it writes, entry by entry.
save_bundle(path, content, eyes, mouths) ==
    [zip |-> TRUE,
     audio |-> IF path # "" /\ PathExists(path) THEN Entry(content) ELSE NoEntry,
     has_animation |-> TRUE,
     animation |-> <<Header(eyes, mouths)>> \o EyeRows(eyes, mouths)
                                            \o MouthRows(eyes, mouths),
     has_manifest |-> TRUE,
     manifest |-> [version |-> "1.0",
                   audio_file |-> IF path # "" THEN Basename(path) ELSE "null",
                   audio_format |-> IF path # "" THEN Extension(path) ELSE "null",
                   frame_count |-> Len(eyes) + Len(mouths)]]

\* list.sort(key=lambda x: x[0]) on rows whose first value is time_ms: the
\* position each row ends at, equal keys keeping their order.
SortedPlace(times, i) ==
    Cardinality({j \in 1..Len(times) :
                   times[j] < times[i] \/ (times[j] = times[i] /\ j <= i)})

StableSortByTime(rows, times) ==
    [k \in 1..Len(rows) |-> rows[CHOOSE i \in 1..Len(rows) : SortedPlace(times, i) = k]]

RowTimes(eyes, mouths) ==
    [i \in 1..Len(eyes) |-> eyes[i][1]] \o [i \in 1..Len(mouths) |-> mouths[i][1]]

\* save_to_csv: the rows of the file it writes.
save_to_csv(eyes, mouths) ==
    <<Header(eyes, mouths)>>
      \o StableSortByTime(EyeRows(eyes, mouths) \o MouthRows(eyes, mouths),
                          RowTimes(eyes, mouths))

\* ---- reading

Missing == <<"<missing>">>

\* csv.DictReader: row[key], None when the row is short; KeyError is Missing too.
Field(header, row, key) ==
    IF \E i \in 1..Len(header) : header[i] = Word(key) /\ i <= Len(row)
      THEN row[CHOOSE i \in 1..Len(header) : header[i] = Word(key) /\ i <= Len(row)]
      ELSE Missing

IsDigits(text) == text # <<>> /\ \A i \in 1..Len(text) : text[i] \in DigitSet

Points(text) == {i \in 1..Len(text) : text[i] = "."}

\* float(text) succeeds
IsNumber(text) ==
    \/ IsDigits(text)
    \/ /\ Cardinality(Points(text)) = 1
       /\ \E p \in Points(text) :
            /\ IsDigits(SubSeq(text, 1, p - 1))
            /\ IsDigits(SubSeq(text, p + 1, Len(text)))

RECURSIVE DigitsValue(_)
DigitsValue(text) ==
    IF text = <<>> THEN 0
    ELSE DigitsValue(SubSeq(text, 1, Len(text) - 1)) * 10 + DigitValue(text[Len(text)])

\* float(text), in tenths
ParseFloat(text) ==
    IF IsDigits(text) THEN DigitsValue(text) * 10
    ELSE LET p == CHOOSE q \in Points(text) : TRUE
         IN  DigitsValue(SubSeq(text, 1, p - 1)) * 10 + DigitValue(text[p + 1])

\* int(float(text))
ParseInt(text) == ParseFloat(text) \div 10

\* text.lower() == "true"
IsTrue(text) == text \in {Word("True"), Word("true"), Word("TRUE")}

\* The cells load_bundle parses as numbers in a row, given its type.
RowRaises(header, row) ==
    LET type == Field(header, row, "type")
        number(key) == Field(header, row, key)
    IN  \/ ~IsNumber(number("time_ms"))
        \/ type = Missing
        \/ /\ type = Word("eye")
           /\ \/ \E key \in {"eye_x", "eye_y"} :
                    number(key) # Word("None") /\ ~IsNumber(number(key))
              \/ \E key \in {"left_eye_closed", "right_eye_closed", "both_eyes_closed"} :
                    Field(header, row, key) = Missing
        \/ /\ type = Word("mouth")
           /\ number("mouth_position") # Word("None")
           /\ ~IsNumber(number("mouth_position"))

EyeFrame(header, row) ==
    <<ParseInt(Field(header, row, "time_ms")),
      IF Field(header, row, "eye_x") # Word("None")
        THEN ParseFloat(Field(header, row, "eye_x")) ELSE 5,
      IF Field(header, row, "eye_y") # Word("None")
        THEN ParseFloat(Field(header, row, "eye_y")) ELSE 5,
      IsTrue(Field(header, row, "left_eye_closed")),
      IsTrue(Field(header, row, "right_eye_closed")),
      IsTrue(Field(header, row, "both_eyes_closed"))>>

MouthFrame(header, row) ==
    <<ParseInt(Field(header, row, "time_ms")),
      IF Field(header, row, "mouth_position") # Word("None")
        THEN ParseInt(Field(header, row, "mouth_position")) ELSE 128>>

IsEyeRow(header, row) == Field(header, row, "type") = Word("eye")
IsMouthRow(header, row) == Field(header, row, "type") = Word("mouth")

\* The frames of one type, in file order.
RECURSIVE FramesOf(_, _, _)
FramesOf(header, rows, eye) ==
    IF rows = <<>> THEN <<>>
    ELSE (IF eye /\ IsEyeRow(header, Head(rows))
            THEN <<EyeFrame(header, Head(rows))>>
          ELSE IF ~eye /\ IsMouthRow(header, Head(rows))
            THEN <<MouthFrame(header, Head(rows))>>
          ELSE <<>>)
         \o FramesOf(header, Tail(rows), eye)

NotLoaded == [raised |-> FALSE, audio_file |-> "null", audio_data |-> NoEntry,
              eye_frames |-> <<>>, mouth_frames |-> <<>>, metadata |-> NoManifest]

Raised == [NotLoaded EXCEPT !.raised = TRUE]

\* No file at the path.
NoArchive == [zip |-> FALSE, audio |-> NoEntry, has_animation |-> FALSE,
              animation |-> <<>>, has_manifest |-> FALSE, manifest |-> NoManifest]

\* load_bundle: the AnimationBundle it returns, or the exception it re-raises.
\* A file that is no archive, a missing or unparsable manifest, a missing
\* animation.csv and a row that cannot be parsed all raise.
load_bundle(archive) ==
    IF ~archive.zip \/ ~archive.has_manifest \/ ~archive.has_animation
      THEN Raised
    ELSE IF archive.animation = <<>> THEN Raised
    ELSE LET header == Head(archive.animation)
             rows == Tail(archive.animation)
         IN  IF \E i \in 1..Len(rows) : RowRaises(header, rows[i])
               THEN Raised
               ELSE [raised |-> FALSE,
                     audio_file |-> archive.manifest.audio_file,
                     audio_data |-> archive.audio,
                     eye_frames |-> FramesOf(header, rows, TRUE),
                     mouth_frames |-> FramesOf(header, rows, FALSE),
                     metadata |-> archive.manifest]

SaveBundle ==
    /\ file_pc = "recorded"
    /\ bundle_file' = save_bundle(audio_path, audio_content, eye_data, mouth_data)
    /\ file_pc' = "saved"
    /\ UNCHANGED <<fileInputs, bundle, notFileVars>>

LoadBundle ==
    /\ file_pc = "saved"
    /\ bundle' = load_bundle(bundle_file)
    /\ file_pc' = "loaded"
    /\ UNCHANGED <<fileInputs, bundle_file, notFileVars>>

\* Nothing recorded, nothing written.
InitFile ==
    /\ eye_data = <<>> /\ mouth_data = <<>>
    /\ audio_path = "" /\ audio_content = <<>>
    /\ bundle_file = NoArchive
    /\ bundle = NotLoaded
    /\ file_pc = "recorded"

\* The recorder's tracks and the audio file, whatever they are.
InitRecorded ==
    /\ eye_data \in EyeTracks /\ mouth_data \in MouthTracks
    /\ audio_path \in AudioPaths /\ audio_content \in AudioContents
    /\ bundle_file = NoArchive
    /\ bundle = NotLoaded
    /\ file_pc = "recorded"

NextFile ==
    \/ SaveBundle
    \/ LoadBundle


\* ----------------------------------------------------------- Bundle Player

\* time.sleep(1 / 60) between two calls of update(), in whole milliseconds,
\* and the 100 ms update() waits after the last frame.
TickMs == 17
EndMargin == 100

\* Frame times of the bundles played: two frames inside one polling tick,
\* and one well after.
PlayTimes == {0, 5, 40}

IncreasingIn(times, n) ==
    {ts \in [1..n -> times] : \A i, j \in 1..n : i < j => ts[i] < ts[j]}

\* (x, y, left_blink, right_blink, both_eyes) of the frames played: the
\* position the player starts from, and two others.
PlaySamples == {<<5, 5, FALSE, FALSE, FALSE>>, <<10, 3, TRUE, FALSE, FALSE>>,
                <<0, 5, FALSE, FALSE, TRUE>>}

PlayEyeTracks ==
    UNION {{[i \in 1..n |-> <<ts[i]>> \o vs[i]] :
              ts \in IncreasingIn(PlayTimes, n), vs \in [1..n -> PlaySamples]} :
           n \in 0..MaxFrames}
PlayMouthTracks ==
    UNION {{[i \in 1..n |-> <<ts[i], ps[i]>>] :
              ts \in IncreasingIn(PlayTimes, n), ps \in [1..n -> MouthPositions]} :
           n \in 0..MaxFrames}

\* (CommandType.EYE_POSITION, int(x * 255), int(y * 255)) as send_eye_command
\* packs it
EyePositionCommand(x, y) == <<32, (x * 255) \div 10, (y * 255) \div 10>>

\* The frame the for loop of apply_*_movement stops on: the last of the
\* leading frames with time_ms <= current_time, 0 when there is none.
FrameToPlay(track, t) ==
    Cardinality({i \in 1..Len(track) : \A j \in 1..i : track[j][1] <= t})

\* apply_eye_movement: the commands it queues
EyeCommands(frame) ==
    (IF frame[2] # current_eye_x \/ frame[3] # current_eye_y
       THEN <<EyePositionCommand(frame[2], frame[3])>> ELSE <<>>)
    \o (IF frame[6]
          THEN IF ~(left_eye_closed /\ right_eye_closed) THEN << <<68>> >> ELSE <<>>
          ELSE (IF frame[4] # left_eye_closed
                  THEN << IF frame[4] THEN <<64>> ELSE <<65>> >> ELSE <<>>)
               \o (IF frame[5] # right_eye_closed
                     THEN << IF frame[5] THEN <<66>> ELSE <<67>> >> ELSE <<>>))

apply_eye_movement(t) ==
    LET n == FrameToPlay(player_eye_data, t)
        frame == player_eye_data[n]
    IN  IF n = 0
          THEN UNCHANGED <<current_eye_x, current_eye_y, left_eye_closed,
                           right_eye_closed, button_command_queue>>
          ELSE /\ current_eye_x' = frame[2]
               /\ current_eye_y' = frame[3]
               /\ left_eye_closed' = (frame[6] \/ frame[4])
               /\ right_eye_closed' = (frame[6] \/ frame[5])
               /\ button_command_queue' = button_command_queue \o EyeCommands(frame)

apply_mouth_movement(t) ==
    LET n == FrameToPlay(player_mouth_data, t)
        frame == player_mouth_data[n]
    IN  IF n = 0 \/ (n > 0 /\ frame[2] = current_mouth_position)
          THEN UNCHANGED <<current_mouth_position, mouth_socket_sent>>
          ELSE /\ current_mouth_position' = frame[2]
               /\ mouth_socket_sent' = Append(mouth_socket_sent, <<80, frame[2]>>)

playback_movements(t) ==
    /\ apply_eye_movement(t)
    /\ apply_mouth_movement(t)

LastTime(track) == IF track = <<>> THEN 0 ELSE track[Len(track)][1]

max_time ==
    IF LastTime(player_eye_data) > LastTime(player_mouth_data)
      THEN LastTime(player_eye_data) ELSE LastTime(player_mouth_data)

\* update() returns True: the movements of this tick are played.
UpdateGoesOn ==
    /\ player_is_playing
    /\ IF current_audio # NoPath
         THEN mixer_busy
         ELSE ~(max_time > 0 /\ clock >= max_time + EndMargin)

\* play_bundle up to its inner loop: a pass of `while True` begins.
PlayStart ==
    /\ play_pc = "start"
    /\ plays < MaxPlays
    /\ plays' = plays + 1
    /\ player_is_playing' = TRUE
    /\ clock' = 0
    /\ mixer_busy' = (current_audio # NoPath)
    /\ play_pc' = "loop"
    /\ UNCHANGED <<bpTracks, bpShown, bpButton, bpSent, current_audio, temp_files,
                   current_time, loop, notBpVars>>

\* One pass of `while self.is_playing`: update(), then the sleep or the way
\* out of the loop, to the next pass of `while True` or to the finally.
PlayUpdate ==
    /\ play_pc = "loop"
    /\ clock < MaxClock
    /\ IF UpdateGoesOn
         THEN /\ current_time' = clock
              /\ playback_movements(clock)
              /\ clock' = clock + TickMs
              /\ UNCHANGED <<player_is_playing, play_pc, mixer_busy, eye_socket_sent,
                             button_command>>
         ELSE /\ current_time' = IF player_is_playing THEN clock ELSE current_time
              /\ IF loop
                   THEN /\ play_pc' = "start"
                        /\ mixer_busy' = FALSE
                        /\ UNCHANGED player_is_playing
                   ELSE /\ play_pc' = "ended"
                        /\ player_is_playing' = FALSE
                        /\ UNCHANGED mixer_busy
              /\ UNCHANGED <<bpShown, bpButton, bpSent, clock>>
    /\ UNCHANGED <<bpTracks, current_audio, temp_files, loop, plays, notBpVars>>

\* The audio track comes to its end.
AudioEnds ==
    /\ mixer_busy
    /\ mixer_busy' = FALSE
    /\ UNCHANGED <<bpTracks, bpShown, bpButton, bpSent, current_audio, temp_files,
                   bpPlay, notBpVars>>

\* _process_button_commands: a command is taken off the queue, ...
ButtonGet ==
    /\ button_command.sends_left = 0
    /\ button_command_queue # <<>>
    /\ button_command' = [command |-> Head(button_command_queue), sends_left |-> 2]
    /\ button_command_queue' = Tail(button_command_queue)
    /\ UNCHANGED <<bpTracks, bpShown, bpSent, bpAudio, bpPlay, notBpVars>>

\* ... and sent, `for _ in range(2)`.
ButtonSend ==
    /\ button_command.sends_left > 0
    /\ eye_socket_sent' = Append(eye_socket_sent, button_command.command)
    /\ button_command' = [button_command EXCEPT !.sends_left = @ - 1]
    /\ UNCHANGED <<bpTracks, bpShown, button_command_queue, mouth_socket_sent,
                   bpAudio, bpPlay, notBpVars>>

\* The packets initialize_networking sends: 0x01, 0x10, 0x12, 0x14.
InitialEyeCommands == << <<1>>, <<16>>, <<18>>, <<20>> >>

\* A player just constructed.
InitPlayer ==
    /\ player_eye_data = <<>> /\ player_mouth_data = <<>>
    /\ player_is_playing = FALSE
    /\ current_time = 0
    /\ current_audio = NoPath
    /\ current_eye_x = 5 /\ current_eye_y = 5
    /\ left_eye_closed = FALSE /\ right_eye_closed = FALSE
    /\ current_mouth_position = 128
    /\ button_command_queue = <<>>
    /\ button_command = [command |-> <<>>, sends_left |-> 0]
    /\ eye_socket_sent = InitialEyeCommands
    /\ mouth_socket_sent = <<>>
    /\ play_pc = "idle"
    /\ loop = FALSE
    /\ clock = 0
    /\ plays = 0
    /\ temp_files = {}
    /\ mixer_busy = FALSE

\* main(): a player constructed, a bundle without audio prepared, play_bundle
\* about to be called.
InitPrepared ==
    /\ player_eye_data \in PlayEyeTracks /\ player_mouth_data \in PlayMouthTracks
    /\ player_is_playing = FALSE
    /\ current_time = 0
    /\ current_audio = NoPath
    /\ current_eye_x = 5 /\ current_eye_y = 5
    /\ left_eye_closed = FALSE /\ right_eye_closed = FALSE
    /\ current_mouth_position = 128
    /\ button_command_queue = <<>>
    /\ button_command = [command |-> <<>>, sends_left |-> 0]
    /\ eye_socket_sent = InitialEyeCommands
    /\ mouth_socket_sent = <<>>
    /\ play_pc = "start"
    /\ loop = FALSE
    /\ clock = 0
    /\ plays = 0
    /\ temp_files = {}
    /\ mixer_busy = FALSE

NextPlayer ==
    \/ PlayStart
    \/ PlayUpdate
    \/ ButtonGet
    \/ ButtonSend


\* -------------------------------------------------------- Animation Daemon

\* Paths are their components from the root. The daemon is started with
\* /srv/anim; beside it lies a bundle the daemon must not play, and inside it
\* a symbolic link to that bundle.
animations_dir == <<"srv", "anim">>

RecordedEyes == << <<0, 10, 3, TRUE, FALSE, TRUE>> >>
RecordedMouths == << <<50, 0>> >>

WaveBundle == save_bundle("clips/voice.wav", <<82, 73, 70, 70>>, RecordedEyes, RecordedMouths)
NodBundle == save_bundle("", <<>>, <<>>, RecordedMouths)

\* time_ms of the only row is the word "soon"
BadRowBundle ==
    [NodBundle EXCEPT !.animation = <<Head(@), <<Word("soon")>> \o Tail(@[2])>>]

Directories == {<<"srv">>, animations_dir, animations_dir \o <<"sub">>}

Bundles ==
    [path \in {animations_dir \o <<"wave.bundle">>, animations_dir \o <<"nod.bundle">>,
               animations_dir \o <<"torn.bundle">>, animations_dir \o <<"nocsv.bundle">>,
               animations_dir \o <<"badrow.bundle">>, <<"srv", "secret.bundle">>} |->
       CASE path = animations_dir \o <<"wave.bundle">> -> WaveBundle
         [] path = animations_dir \o <<"nod.bundle">> -> NodBundle
         [] path = animations_dir \o <<"torn.bundle">> -> [WaveBundle EXCEPT !.has_manifest = FALSE]
         [] path = animations_dir \o <<"nocsv.bundle">> -> [NodBundle EXCEPT !.has_animation = FALSE]
         [] path = animations_dir \o <<"badrow.bundle">> -> BadRowBundle
         [] OTHER -> NodBundle]

Symlinks == [path \in {animations_dir \o <<"link.bundle">>} |-> <<"srv", "secret.bundle">>]

\* Path.exists() of a resolved path
OnDisk(path) == path \in Directories \cup DOMAIN Bundles

\* What opening the path as a zip archive gives.
Archive(path) == IF path \in DOMAIN Bundles THEN Bundles[path] ELSE NoArchive

\* Path.resolve(): ".." steps up, a symbolic link is replaced by its target.
RECURSIVE Resolve(_, _)
Resolve(done, rest) ==
    IF rest = <<>> THEN done
    ELSE IF Head(rest) = ".."
      THEN Resolve(IF done = <<>> THEN done ELSE SubSeq(done, 1, Len(done) - 1), Tail(rest))
    ELSE LET next == Append(done, Head(rest))
         IN  Resolve(IF next \in DOMAIN Symlinks THEN Symlinks[next] ELSE next, Tail(rest))

\* dir in path.parents
InParents(dir, path) == Len(dir) < Len(path) /\ SubSeq(path, 1, Len(dir)) = dir

NoFile == [absolute |-> FALSE, parts |-> <<>>]
Relative(parts) == [absolute |-> FALSE, parts |-> parts]
Absolute(parts) == [absolute |-> TRUE, parts |-> parts]

\* The "file" of the play payloads sent.
PlayFiles ==
    {NoFile,
     Relative(<<"wave.bundle">>), Relative(<<"nod.bundle">>),
     Relative(<<"torn.bundle">>), Relative(<<"nocsv.bundle">>),
     Relative(<<"badrow.bundle">>), Relative(<<"missing.bundle">>),
     Relative(<<"sub">>), Relative(<<"sub", "..", "nod.bundle">>),
     Relative(<<"link.bundle">>), Relative(<<"..", "secret.bundle">>),
     Absolute(<<"srv", "secret.bundle">>), Absolute(animations_dir \o <<"nod.bundle">>)}

file_path(filename) ==
    Resolve(<<>>, IF filename.absolute THEN filename.parts
                  ELSE animations_dir \o filename.parts)

validate_animation_fileMutExistsOnly(filename) == OnDisk(file_path(filename))

\* validate_animation_file returns a path (TRUE) or None (FALSE)
validate_animation_file(filename) ==
    InParents(animations_dir, file_path(filename)) /\ OnDisk(file_path(filename))

TempNames == {"tmp1.wav", "tmp2.wav"}

\* pygame.mixer.music.load accepts the bytes
MixerLoads(bytes) == bytes = <<82, 73, 70, 70>>

\* prepare_bundle called while is_playing is `playing`, and whether it
\* returned True
prepare_bundle(path, playing, ok) ==
    LET loaded == load_bundle(Archive(path))
        kept == temp_files \ {current_audio}
        temp_file == CHOOSE name \in TempNames : name \notin kept
        audio == loaded.audio_data.present /\ loaded.audio_data.bytes # <<>>
    IN  /\ mixer_busy' = IF current_audio # NoPath THEN FALSE ELSE mixer_busy
        /\ ok = ~loaded.raised
        /\ IF loaded.raised
             THEN /\ temp_files' = kept
                  /\ player_is_playing' = playing
                  /\ UNCHANGED <<bpTracks, current_time, current_audio>>
             ELSE /\ player_eye_data' = loaded.eye_frames
                  /\ player_mouth_data' = loaded.mouth_frames
                  /\ current_time' = 0
                  /\ player_is_playing' = FALSE
                  /\ current_audio' = IF audio /\ MixerLoads(loaded.audio_data.bytes)
                                        THEN temp_file ELSE NoPath
                  /\ temp_files' = IF audio /\ MixerLoads(loaded.audio_data.bytes)
                                     THEN kept \cup {temp_file} ELSE kept

PlayMessage(filename) == [topic |-> "play", file |-> filename]
StopMessage == [topic |-> "stop", file |-> NoFile]

\* handle_play_command up to the call of play_bundle; self.player.is_playing
\* is set to False before prepare_bundle is called.
HandlePlay(filename, loops) ==
    /\ daemon_pc = "idle"
    /\ stop_clock < 0
    /\ messages < MaxMessages
    /\ UNCHANGED stop_clock
    /\ messages' = messages + 1
    /\ last_message' = PlayMessage(filename)
    /\ IF filename = NoFile \/ ~validate_animation_file(filename)
         THEN /\ last_prepare' = "none"
              /\ UNCHANGED <<dmnState, prepare_calls, play_calls, bpVars>>
         ELSE /\ prepare_calls' = Append(prepare_calls, file_path(filename))
              /\ \E ok \in BOOLEAN :
                    /\ prepare_bundle(file_path(filename), FALSE, ok)
                    /\ IF ok
                         THEN /\ last_prepare' = "ok"
                              /\ status' = "playing"
                              /\ current_animation' = filename.parts[Len(filename.parts)]
                              /\ daemon_pc' = "playing"
                              /\ play_calls' = Append(play_calls, file_path(filename))
                              /\ play_pc' = "start"
                              /\ loop' = loops
                              /\ plays' = 0
                              /\ UNCHANGED clock
                         ELSE /\ last_prepare' = "failed"
                              /\ UNCHANGED <<dmnState, play_calls, play_pc, loop, plays, clock>>
              /\ UNCHANGED <<bpShown, bpButton, bpSent>>
    /\ UNCHANGED notPlayerVars

\* handle_play_command after play_bundle has returned
PlayReturns ==
    /\ daemon_pc = "playing"
    /\ play_pc = "ended"
    /\ status' = "idle"
    /\ current_animation' = NoPath
    /\ daemon_pc' = "idle"
    /\ play_pc' = "idle"
    /\ UNCHANGED <<bpTracks, bpShown, bpButton, bpSent, bpAudio, player_is_playing,
                   current_time, loop, clock, plays, dmnHist, notPlayerVars>>

\* A stop message reaches the MQTT client while on_message is still inside
\* handle_play_command: loop_forever calls on_message for it only after
\* that call has returned.
StopArrives ==
    /\ daemon_pc = "playing"
    /\ play_pc = "loop"
    /\ stop_clock < 0
    /\ messages < MaxMessages
    /\ messages' = messages + 1
    /\ stop_clock' = clock
    /\ UNCHANGED <<bpVars, dmnState, last_message, prepare_calls, play_calls,
                   last_prepare, notPlayerVars>>

\* handle_stop_command, for a stop message that waited or one that arrives now
handle_stop_command ==
    /\ daemon_pc = "idle"
    /\ stop_clock >= 0 \/ messages < MaxMessages
    /\ messages' = IF stop_clock >= 0 THEN messages ELSE messages + 1
    /\ stop_clock' = -1
    /\ last_message' = StopMessage
    /\ player_is_playing' = FALSE
    /\ status' = "idle"
    /\ current_animation' = NoPath
    /\ UNCHANGED <<bpTracks, bpShown, bpButton, bpSent, bpAudio, current_time, play_pc,
                   loop, clock, plays, daemon_pc, prepare_calls, play_calls,
                   last_prepare, notPlayerVars>>

InitDaemon ==
    /\ status = "idle"
    /\ current_animation = NoPath
    /\ daemon_pc = "idle"
    /\ messages = 0
    /\ last_message = StopMessage
    /\ prepare_calls = <<>>
    /\ play_calls = <<>>
    /\ last_prepare = "none"
    /\ stop_clock = -1

OnPlayMessage == \E filename \in PlayFiles, loops \in BOOLEAN : HandlePlay(filename, loops)

NextDaemon ==
    \/ OnPlayMessage
    \/ StopArrives
    \/ handle_stop_command
    \/ PlayStart
    \/ PlayUpdate
    \/ AudioEnds
    \/ PlayReturns
    \/ ButtonGet
    \/ ButtonSend


\* ---------------------------------------------------------------- Recorder
\* EyeController and MouthController record the same way: the controller
\* thread puts samples on record_queue, memory_writer moves them to
\* recorded_data, start_recording and stop_recording run in the GUI thread.

\* time.sleep(0.016) at the end of every pass of the controller loop, in ms
LoopMs == 16

\* start_recording
StartRecording ==
    /\ stop_pc_rec = "idle"
    /\ ~is_recording
    /\ session < MaxSessions
    /\ session' = session + 1
    /\ recorded_data' = <<>>
    /\ recording_start_time' = now
    /\ is_recording' = TRUE
    /\ writer_pc' = "loop"
    /\ UNCHANGED <<record_queue, now, ctl_pc, ctl_state, writer_state, stop_pc_rec,
                   notRecVars>>

\* stop_recording up to writer_thread.join(), ...
StopRecording ==
    /\ stop_pc_rec = "idle"
    /\ is_recording
    /\ is_recording' = FALSE
    /\ stop_pc_rec' = "join"
    /\ UNCHANGED <<recorded_data, record_queue, recording_start_time, now, ctl_pc,
                   ctl_state, writer_pc, writer_state, session, notRecVars>>

\* ... and its return once the writer thread has ended.
StopReturns ==
    /\ stop_pc_rec = "join"
    /\ writer_pc = "done"
    /\ stop_pc_rec' = "idle"
    /\ UNCHANGED <<is_recording, recorded_data, record_queue, recording_start_time,
                   now, ctl_pc, ctl_state, writer_pc, writer_state, session, notRecVars>>

\* A pass of the controller loop: `if self.is_recording` and the same test
\* in record_state, the sample made; without recording only the sleep.
ControllerPass ==
    /\ ctl_pc = "loop"
    /\ now < MaxNow
    /\ IF is_recording
         THEN /\ ctl_pc' = "put"
              /\ ctl_state' = <<session, (now - recording_start_time) * LoopMs>>
              /\ UNCHANGED now
         ELSE /\ now' = now + 1
              /\ UNCHANGED <<ctl_pc, ctl_state>>
    /\ UNCHANGED <<is_recording, recorded_data, record_queue, recording_start_time,
                   writer_pc, writer_state, stop_pc_rec, session, notRecVars>>

\* record_state: self.record_queue.put(state), then the sleep of the loop
ControllerPut ==
    /\ ctl_pc = "put"
    /\ record_queue' = Append(record_queue, ctl_state)
    /\ ctl_pc' = "loop"
    /\ now' = now + 1
    /\ UNCHANGED <<is_recording, recorded_data, recording_start_time, ctl_state,
                   writer_pc, writer_state, stop_pc_rec, session, notRecVars>>

\* memory_writer: the test of its while and record_queue.get
WriterGet ==
    /\ writer_pc = "loop"
    /\ IF record_queue # <<>>
         THEN /\ writer_state' = Head(record_queue)
              /\ record_queue' = Tail(record_queue)
              /\ writer_pc' = "append"
         ELSE /\ ~is_recording
              /\ writer_pc' = "done"
              /\ UNCHANGED <<writer_state, record_queue>>
    /\ UNCHANGED <<is_recording, recorded_data, recording_start_time, now, ctl_pc,
                   ctl_state, stop_pc_rec, session, notRecVars>>

\* memory_writer: self.recorded_data.append(state)
WriterAppend ==
    /\ writer_pc = "append"
    /\ recorded_data' = Append(recorded_data, writer_state)
    /\ writer_pc' = "loop"
    /\ UNCHANGED <<is_recording, record_queue, recording_start_time, now, ctl_pc,
                   ctl_state, writer_state, stop_pc_rec, session, notRecVars>>

InitRecorder ==
    /\ is_recording = FALSE
    /\ recorded_data = <<>>
    /\ record_queue = <<>>
    /\ recording_start_time = 0
    /\ now = 0
    /\ ctl_pc = "loop"
    /\ ctl_state = <<0, 0>>
    /\ writer_pc = "none"
    /\ writer_state = <<0, 0>>
    /\ stop_pc_rec = "idle"
    /\ session = 0


NextRecorder ==
    \/ StartRecording
    \/ StopRecording
    \/ StopReturns
    \/ ControllerPass
    \/ ControllerPut
    \/ WriterGet
    \/ WriterAppend


\* -------------------------------------------------------------- Mouth Actor

\* --idle, --min and --max as they default
IdlePosition == 128
PwmMin == 102
PwmMax == 180

\* 0x50 with a position, other opcodes, 0x50 without its byte, and the
\* empty datagram.
MouthDatagrams ==
    {<<80, p>> : p \in {0, 128, 200, 255}} \cup {<<81, 7>>, <<32, 128, 128>>, <<80>>, <<>>}

\* decode_message raises something the main loop does not catch: IndexError
\* on data[0], struct.error on an empty data[1:2].
MouthDecodeEscapes(data) == data = <<>> \/ (data[1] = 80 /\ Len(data) < 2)

mouth_decode_messageMutAny(data) == Len(data) >= 2

\* decode_message returns "set_position,<p>"; otherwise it raises ValueError.
mouth_decode_message(data) == Len(data) >= 2 /\ data[1] = 80

map_value(value, in_min, in_max, out_min, out_max) ==
    ((value - in_min) * (out_max - out_min)) \div (in_max - in_min) + out_min

\* set_servo_position: the pulse width handed to pigpio
set_servo_position(position) == map_value(position, 0, 255, PwmMin, PwmMax) * 10

\* ease_in_out(e / EaseDuration) as a fraction of EaseDuration squared
ease_in_outMutQuadratic(e) == 2 * e * e

ease_in_out(e) ==
    IF 2 * e < EaseDuration
      THEN 2 * e * e
      ELSE 4 * e * EaseDuration - 2 * e * e - EaseDuration * EaseDuration

\* update_easing: int(ease_start_position + position_delta * eased_progress)
new_position(from, e) ==
    (from * EaseDuration * EaseDuration + (IdlePosition - from) * ease_in_out(e))
       \div (EaseDuration * EaseDuration)

\* The main loop's pass for a datagram received.
MouthReceive(data) ==
    /\ mouth_running
    /\ mouth_received < MaxDatagrams
    /\ mouth_received' = mouth_received + 1
    /\ mouth_last' = data
    /\ IF MouthDecodeEscapes(data)
         THEN /\ mouth_running' = FALSE
              /\ commanded' = "none"
              /\ UNCHANGED <<current_position, is_easing, since_activity, pulsewidth>>
         ELSE IF mouth_decode_message(data)
         THEN /\ is_easing' = FALSE
              /\ current_position' = data[2]
              /\ pulsewidth' = set_servo_position(data[2])
              /\ since_activity' = 0
              /\ commanded' = "udp"
              /\ UNCHANGED mouth_running
         ELSE /\ commanded' = "none"
              /\ UNCHANGED <<mouth_running, current_position, is_easing,
                             since_activity, pulsewidth>>
    /\ UNCHANGED <<ease_start_position, ease_elapsed, notMthVars>>

\* The main loop's pass for socket.timeout: start_easing_to_idle when due,
\* update_easing, the sleep.
MouthTimeout ==
    /\ mouth_running
    /\ LET starts == ~is_easing /\ since_activity >= IdleTimeout
                     /\ current_position # IdlePosition
           easing == is_easing \/ starts
           from == IF starts THEN current_position ELSE ease_start_position
           e == IF starts THEN 0 ELSE ease_elapsed
           position == new_position(from, e)
       IN  /\ ease_start_position' = from
           /\ IF easing
                THEN /\ current_position' = position
                     /\ IF position # current_position
                          THEN /\ pulsewidth' = set_servo_position(position)
                               /\ commanded' = "ease"
                          ELSE /\ commanded' = "none"
                               /\ UNCHANGED pulsewidth
                     /\ is_easing' = (e < EaseDuration)
                     /\ ease_elapsed' = IF e < EaseDuration THEN e + 1 ELSE e
                ELSE /\ commanded' = "none"
                     /\ UNCHANGED <<current_position, pulsewidth, is_easing, ease_elapsed>>
    /\ since_activity' = IF since_activity < IdleTimeout THEN since_activity + 1
                         ELSE since_activity
    /\ UNCHANGED <<mouth_running, mouth_received, mouth_last, notMthVars>>

InitMouth ==
    /\ mouth_running = TRUE
    /\ current_position = IdlePosition
    /\ is_easing = FALSE
    /\ ease_start_position = 0
    /\ since_activity = 0
    /\ ease_elapsed = 0
    /\ pulsewidth = 0
    /\ commanded = "none"
    /\ mouth_received = 0
    /\ mouth_last = <<>>

MouthRecv == \E data \in MouthDatagrams : MouthReceive(data)

NextMouth ==
    \/ MouthRecv
    \/ MouthTimeout

\* ------------------------------------------------- Eye Actor, the frame

\* Datagrams the Eye Actor is sent under SpecEyeFrame: attach, movement and
\* blink autonomy off, a gaze target, an explicit position for the left lid,
\* a blink of each eye and the end of both.
FrameDatagrams ==
    {<<1>>, <<16>>, <<18>>, <<32, 255, 51>>, <<48, 255>>, <<64>>, <<66>>, <<69>>}

\* Under SpecEyeBlink: the six blink commands, attach and detach, blink
\* autonomy off.
BlinkDatagrams ==
    {<<64>>, <<65>>, <<66>>, <<67>>, <<68>>, <<69>>, <<1>>, <<0>>, <<18>>}

BlinkOpcodes == {64, 65, 66, 67, 68, 69}

\* Where the autonomous driver starts and where it goes: points of the disc
\* of radius 30 degrees, in tenths.
GazePoints == {<<0, 0>>, <<120, -240>>}

NoGaze == <<-1, -1>>
NoBlink == <<-1, FALSE>>

\* The history after a datagram is processed.
RecordDatagram(data) ==
    /\ last_gaze' = IF data[1] = 32
                      THEN <<Hundredths(data[2]), Hundredths(data[3])>>
                      ELSE last_gaze
    /\ last_left_lid' = IF data[1] = 48 THEN <<data[2]>>
                         ELSE IF data[1] \in {64, 65, 68, 69} THEN <<>>
                         ELSE last_left_lid
    /\ last_blink' = IF data[1] \in BlinkOpcodes
                       THEN <<data[1], last_blink[1] = data[1]>>
                       ELSE NoBlink

\* A datagram from its arrival in udp_thread to the pass of the drain loop
\* of process_udp_messages that applies it.  frame() drains the queue before
\* it renders, so the queue only delays a message until the next frame: here
\* the message is applied in the step in which it arrives.
FrameMessage(data) ==
    /\ udp_alive
    /\ ~DecodeRaises(data)
    /\ message_queue = <<>>
    /\ ApplyMessage(decode_message(data))
    /\ RecordDatagram(data)
    /\ UNCHANGED <<eyeNet, eyeHist, curX, curY, saccade, trackingPos, lidWeights, frames>>
    /\ UNCHANGED notFrmVars

\* The autonomous branch of frame(): a move in progress is interpolated (here
\* at its half, where 3t^2 - 2t^3 = 1/2) or, its duration over, ends at the
\* destination; a hold goes on or, its duration over, a destination is drawn.
AutonomousGaze ==
    IF isMoving
      THEN \/ /\ curX' = startX + (destX - startX) \div 2
              /\ curY' = startY + (destY - startY) \div 2
              /\ UNCHANGED saccade
           \/ /\ startX' = destX /\ startY' = destY
              /\ curX' = destX /\ curY' = destY
              /\ isMoving' = FALSE
              /\ UNCHANGED <<destX, destY>>
      ELSE \/ UNCHANGED <<curX, curY, saccade>>
           \/ \E d \in GazePoints :
                /\ destX' = d[1] /\ destY' = d[2]
                /\ isMoving' = TRUE
                /\ UNCHANGED <<curX, curY, startX, startY>>

\* n = max(0, min(1, 0.4 - curY / 60)), in thousandths, curY in tenths
TrackingTarget(y) ==
    LET n == 400 - (5 * y) \div 3
    IN  IF n < 0 THEN 0 ELSE IF n > 1000 THEN 1000 ELSE n

RenderMutBlinkNeedsAuto ==
    /\ message_queue = <<>>
    /\ frames < MaxRenders
    /\ frames' = frames + 1
    /\ IF (~auto_movement) \/ joystick_connected
         THEN /\ curX' = -300 + 6 * joystick_x
              /\ curY' = -300 + 6 * joystick_y
              /\ UNCHANGED saccade
         ELSE AutonomousGaze
    /\ left_eyelid_position' = IF blink_left_active THEN 100 ELSE 0
    /\ right_eyelid_position' = IF blink_right_active THEN 100 ELSE 0
    /\ trackingPos' = (trackingPos * 3 + TrackingTarget(curY')) \div 4
    /\ IF ~auto_blink /\ ~(blink_left_active \/ blink_right_active)
         THEN /\ leftUpperLidWeight' = 10 * left_eyelid_position'
              /\ leftLowerLidWeight' = 10 * left_eyelid_position'
              /\ rightUpperLidWeight' = 10 * right_eyelid_position'
              /\ rightLowerLidWeight' = 10 * right_eyelid_position'
         ELSE /\ leftUpperLidWeight' = IF blink_left_active /\ auto_blink THEN 1000 ELSE trackingPos'
              /\ leftLowerLidWeight' = IF blink_left_active /\ auto_blink THEN 1000 ELSE 1000 - trackingPos'
              /\ rightUpperLidWeight' = IF blink_right_active /\ auto_blink THEN 1000 ELSE trackingPos'
              /\ rightLowerLidWeight' = IF blink_right_active /\ auto_blink THEN 1000 ELSE 1000 - trackingPos'
    /\ UNCHANGED <<eyeFlags, eyeGaze, eyeBlink, eyeNet, eyeHist, frmHist>>
    /\ UNCHANGED notFrmVars

\* frame() after the drain: the gaze, the lid positions rewritten from the
\* blink flags, the tracking position, the lid weights.  CRAZY_EYES is False,
\* TRACKING True and BLINK_PIN None, as the module sets them.
Render ==
    /\ message_queue = <<>>
    /\ frames < MaxRenders
    /\ frames' = frames + 1
    /\ IF (~auto_movement) \/ joystick_connected
         THEN /\ curX' = -300 + 6 * joystick_x
              /\ curY' = -300 + 6 * joystick_y
              /\ UNCHANGED saccade
         ELSE AutonomousGaze
    /\ left_eyelid_position' = IF blink_left_active THEN 100 ELSE 0
    /\ right_eyelid_position' = IF blink_right_active THEN 100 ELSE 0
    /\ trackingPos' = (trackingPos * 3 + TrackingTarget(curY')) \div 4
    /\ IF ~auto_blink /\ ~(blink_left_active \/ blink_right_active)
         THEN /\ leftUpperLidWeight' = 10 * left_eyelid_position'
              /\ leftLowerLidWeight' = 10 * left_eyelid_position'
              /\ rightUpperLidWeight' = 10 * right_eyelid_position'
              /\ rightLowerLidWeight' = 10 * right_eyelid_position'
         ELSE /\ leftUpperLidWeight' = IF blink_left_active THEN 1000 ELSE trackingPos'
              /\ leftLowerLidWeight' = IF blink_left_active THEN 1000 ELSE 1000 - trackingPos'
              /\ rightUpperLidWeight' = IF blink_right_active THEN 1000 ELSE trackingPos'
              /\ rightLowerLidWeight' = IF blink_right_active THEN 1000 ELSE 1000 - trackingPos'
    /\ UNCHANGED <<eyeFlags, eyeGaze, eyeBlink, eyeNet, eyeHist, frmHist>>
    /\ UNCHANGED notFrmVars

\* The module-level values before the first frame, the driver at rest at p.
\* The lid meshes are built at weight 0.5.
InitFrameAt(p) ==
    /\ startX = p[1] /\ startY = p[2]
    /\ destX = p[1] /\ destY = p[2]
    /\ curX = p[1] /\ curY = p[2]
    /\ isMoving = FALSE
    /\ trackingPos = 300
    /\ leftUpperLidWeight = 500 /\ leftLowerLidWeight = 500
    /\ rightUpperLidWeight = 500 /\ rightLowerLidWeight = 500
    /\ frames = 0
    /\ last_gaze = NoGaze
    /\ last_left_lid = <<>>
    /\ last_blink = NoBlink

InitFrameRest == InitFrameAt(<<0, 0>>)

FrameRecv == \E data \in FrameDatagrams : FrameMessage(data)

NextEyeFrame ==
    \/ FrameRecv
    \/ Render

BlinkRecv == \E data \in BlinkDatagrams : FrameMessage(data)

NextEyeBlink == BlinkRecv

\* ------------------------------------------------- encoders and decoders

Bytes == 0..255

\* int(float(x) * 255) for x = num / den in [0, 1], as encode_eye_position
\* and EyeController.encode_message compute the byte of a gaze coordinate or
\* a lid position.  For x = k / 255 the double product is exactly k.
UnitByte(num, den) == (num * 255) \div den

\* The editor encodes k / 255.
QuantEncode ==
    /\ calc_pc = "input"
    /\ calc_byte' = UnitByte(calc_in, 255)
    /\ calc_pc' = "sent"
    /\ UNCHANGED <<calc_in, calc_out>>
    /\ UNCHANGED notCalcVars

\* The Eye Actor's decode_message turns the byte into the text of a number
\* with two decimals, which process_udp_messages reads with float().
QuantDecode ==
    /\ calc_pc = "sent"
    /\ calc_out' = Hundredths(calc_byte)
    /\ calc_pc' = "decoded"
    /\ UNCHANGED <<calc_in, calc_byte>>
    /\ UNCHANGED notCalcVars

\* The tracker's send_eye_position packs the byte of a coordinate.
ScaleEncode ==
    /\ calc_pc = "input"
    /\ calc_byte' = EyeByte(calc_in)
    /\ calc_pc' = "sent"
    /\ UNCHANGED <<calc_in, calc_out>>
    /\ UNCHANGED notCalcVars

InitCalc ==
    /\ calc_pc = "rest"
    /\ calc_in = 0 /\ calc_byte = 0 /\ calc_out = 0

NextQuant ==
    \/ QuantEncode
    \/ QuantDecode

NextScale == ScaleEncode

\* ------------------------------------------- BundlePlayer to Eye Actor

\* apply_eye_movement for a frame that keeps the gaze and sets the blink
\* columns, its commands sent by the button thread at once.
PlayedFrame(left_blink, right_blink, both_eyes) ==
    LET frame == <<0, current_eye_x, current_eye_y, left_blink, right_blink, both_eyes>>
    IN  /\ player_running
        /\ Len(eye_socket_sent) < Len(InitialEyeCommands) + MaxBlinkPackets
        /\ eye_socket_sent' = eye_socket_sent \o EyeCommands(frame)
        /\ left_eye_closed' = (both_eyes \/ left_blink)
        /\ right_eye_closed' = (both_eyes \/ right_blink)
        /\ UNCHANGED <<current_eye_x, current_eye_y, current_mouth_position>>
        /\ UNCHANGED <<bpTracks, bpButton, mouth_socket_sent, bpAudio, bpPlay>>
        /\ UNCHANGED <<eyeVars, trkVars, sndVars, fileVars, dmnVars>>
        /\ UNCHANGED <<recVars, mthVars, frmVars, calcVars, hndVars, edVars>>

\* cleanup(): the eye packets it sends
cleanup ==
    /\ player_running
    /\ player_running' = FALSE
    /\ eye_socket_sent' =
         eye_socket_sent
           \o (IF left_eye_closed THEN << <<65>> >> ELSE <<>>)
           \o (IF right_eye_closed THEN << <<67>> >> ELSE <<>>)
           \o << <<17>>, <<19>>, <<21>> >>
    /\ UNCHANGED <<bpTracks, bpShown, bpButton, mouth_socket_sent, bpAudio, bpPlay>>
    /\ UNCHANGED <<eyeVars, trkVars, sndVars, fileVars, dmnVars>>
    /\ UNCHANGED <<recVars, mthVars, frmVars, calcVars, delivered, edVars>>

\* The Eye Actor takes the next packet the player sent: udp_thread decodes
\* it, process_udp_messages applies it.
EyeTakes ==
    /\ udp_alive
    /\ message_queue = <<>>
    /\ delivered < Len(eye_socket_sent)
    /\ delivered' = delivered + 1
    /\ ApplyMessage(decode_message(eye_socket_sent[delivered + 1]))
    /\ RecordApplied(decode_message(eye_socket_sent[delivered + 1]))
    /\ UNCHANGED <<eyeNet, player_running>>
    /\ UNCHANGED <<trkVars, sndVars, fileVars, bpVars, dmnVars>>
    /\ UNCHANGED <<recVars, mthVars, frmVars, calcVars, edVars>>

InitHandover ==
    /\ player_running = TRUE
    /\ delivered = 0

PlayerBlinks == \E l, r, b \in BOOLEAN : PlayedFrame(l, r, b)

NextHandover ==
    \/ PlayerBlinks
    \/ cleanup
    \/ EyeTakes

\* ------------------------------------------- the editor's recording clock

\* Milliseconds since playback began at the ticks of update_gui, in tenths:
\* 16.0 ms to 22.3 ms.
ClockReadings == 160..223

\* update_gui while playing and recording, up to the call of record_*_data.
\* With audio loaded current_time is audio_player.get_position(), the float
\* paused_time + (time.time() * 1000 - start_time), and playback stops at
\* the duration (here 20 ms); without, it is int() of the elapsed ms.  The
\* end test of the branch without audio is against the frame recorded last
\* plus 100 ms, at most one tick old while recording.
update_gui(elapsed) ==
    /\ editor_pc = "recording"
    /\ IF audio_loaded
         THEN IF elapsed >= 200
                THEN /\ editor_pc' = "stopped"
                     /\ editor_time' = 0
                     /\ time_is_float' = FALSE
                ELSE /\ editor_pc' = "ticked"
                     /\ editor_time' = elapsed
                     /\ time_is_float' = TRUE
         ELSE /\ editor_pc' = "ticked"
              /\ editor_time' = (elapsed \div 10) * 10
              /\ time_is_float' = FALSE
    /\ UNCHANGED <<audio_loaded, time_cell, loaded_time_ms>>
    /\ UNCHANGED notEdVars

\* record_eye_data / record_mouth_data append current_time as it is, and
\* save_bundle hands it to csv.writer, which writes str() of it.
SaveRecorded ==
    /\ editor_pc = "ticked"
    /\ time_cell' = IF time_is_float THEN FloatText(editor_time)
                                     ELSE IntText(editor_time \div 10)
    /\ editor_pc' = "saved"
    /\ UNCHANGED <<audio_loaded, editor_time, time_is_float, loaded_time_ms>>
    /\ UNCHANGED notEdVars

\* load_bundle: int(float(row["time_ms"]))
LoadRecorded ==
    /\ editor_pc = "saved"
    /\ loaded_time_ms' = ParseInt(time_cell)
    /\ editor_pc' = "loaded"
    /\ UNCHANGED <<audio_loaded, editor_time, time_is_float, time_cell>>
    /\ UNCHANGED notEdVars

InitEditor ==
    /\ editor_pc = "closed"
    /\ audio_loaded = FALSE
    /\ editor_time = 0
    /\ time_is_float = FALSE
    /\ time_cell = <<>>
    /\ loaded_time_ms = 0

EditorTick == \E elapsed \in ClockReadings : update_gui(elapsed)

NextEditor ==
    \/ EditorTick
    \/ SaveRecorded
    \/ LoadRecorded

InitRest ==
    InitRecorder /\ InitMouth /\ InitFrameRest /\ InitCalc /\ InitHandover /\ InitEditor

\* The tracker as configured at start-up; the other components at rest.
InitTracker ==
    /\ InitThermal
    /\ InitEye
    /\ InitSound
    /\ InitFile
    /\ InitPlayer
    /\ InitDaemon
    /\ InitRest

SpecThermal == InitTracker /\ [][NextThermal]_vars

\* The Eye Actor alone: the tracker stays as constructed, with the detection
\* sound at its default.
TrackerAtRest ==
    /\ InitThermal
    /\ enable_detection_sound = FALSE
    /\ detection_sound_file = ""

Init ==
    /\ InitEye
    /\ TrackerAtRest
    /\ InitSound
    /\ InitFile
    /\ InitPlayer
    /\ InitDaemon
    /\ InitRest

SpecEye == Init /\ [][NextEye]_vars

Spec == SpecEye

\* The Eye Actor frame by frame: startX, startY are drawn at random when the
\* module loads.
InitEyeFrame ==
    /\ InitEye
    /\ TrackerAtRest
    /\ InitSound
    /\ InitFile
    /\ InitPlayer
    /\ InitDaemon
    /\ InitRecorder
    /\ InitMouth
    /\ \E p \in GazePoints : InitFrameAt(p)
    /\ InitCalc
    /\ InitHandover
    /\ InitEditor

SpecEyeFrame == InitEyeFrame /\ [][NextEyeFrame]_vars

\* The blink commands alone, between two frames.
SpecEyeBlink == Init /\ [][NextEyeBlink]_vars

\* A BundlePlayer just constructed, its four packets sent, and the Eye Actor
\* they are addressed to.
SpecHandover == Init /\ [][NextHandover]_vars

\* The editor playing and recording, with an audio file loaded or without.
InitRecording ==
    /\ InitEye
    /\ TrackerAtRest
    /\ InitSound
    /\ InitFile
    /\ InitPlayer
    /\ InitDaemon
    /\ InitRecorder
    /\ InitMouth
    /\ InitFrameRest
    /\ InitCalc
    /\ InitHandover
    /\ editor_pc = "recording"
    /\ audio_loaded \in BOOLEAN
    /\ editor_time = 0
    /\ time_is_float = FALSE
    /\ time_cell = <<>>
    /\ loaded_time_ms = 0

SpecEditor == InitRecording /\ [][NextEditor]_vars

\* Everything at rest but the value about to be encoded.
InitEncoder(inputs) ==
    /\ InitEye
    /\ TrackerAtRest
    /\ InitSound
    /\ InitFile
    /\ InitPlayer
    /\ InitDaemon
    /\ InitRecorder
    /\ InitMouth
    /\ InitFrameRest
    /\ calc_pc = "input"
    /\ calc_in \in inputs
    /\ calc_byte = 0 /\ calc_out = 0
    /\ InitHandover
    /\ InitEditor

\* The wire byte of k / 255, for every k, encoded by the editor and decoded
\* by the Eye Actor.
SpecQuant == InitEncoder(Bytes) /\ [][NextQuant]_vars

\* The tracker's coordinates, in thousandths of [-1, +1], every fifth.
ScaleGrid == {5 * i - 1000 : i \in 0..400}

SpecScale == InitEncoder(ScaleGrid) /\ [][NextScale]_vars

\* The Sound Player alone.
InitSoundPlayer ==
    /\ InitSound
    /\ InitEye
    /\ TrackerAtRest
    /\ InitFile
    /\ InitPlayer
    /\ InitDaemon
    /\ InitRest

SpecSound == InitSoundPlayer /\ [][NextSound]_vars

\* The bundle file format alone: save_bundle, then load_bundle of its file.
InitFileFormat ==
    /\ InitRecorded
    /\ InitEye
    /\ TrackerAtRest
    /\ InitSound
    /\ InitPlayer
    /\ InitDaemon
    /\ InitRest

SpecFile == InitFileFormat /\ [][NextFile]_vars

\* The Bundle Player alone, playing a bundle without audio once.
InitPlayback ==
    /\ InitPrepared
    /\ InitDaemon
    /\ InitRest
    /\ InitEye
    /\ TrackerAtRest
    /\ InitSound
    /\ InitFile

SpecPlayer == InitPlayback /\ [][NextPlayer]_vars

\* The Animation Daemon with its player, up to MaxMessages messages.
InitDaemonStarted ==
    /\ InitDaemon
    /\ InitRest
    /\ InitPlayer
    /\ InitEye
    /\ TrackerAtRest
    /\ InitSound
    /\ InitFile

SpecDaemon == InitDaemonStarted /\ [][NextDaemon]_vars

\* The recorder of a controller, from its construction.
SpecRecorder == Init /\ [][NextRecorder]_vars

\* The Mouth Actor from its start; its main loop never stops taking passes.
SpecMouth == Init /\ [][NextMouth]_vars

SpecMouthLive == SpecMouth /\ WF_vars(MouthTimeout)

\* ------------------------------------------------- properties: Eye Actor

ProcessStep == Len(message_queue') < Len(message_queue)

\* C1: in every reachable state of the Eye Actor, whatever commands were
\* applied, an attached controller implies that auto_movement is off.
C1_AttachedImpliesNoAutoMovement == joystick_connected => ~auto_movement

\* C1's case: a controller is attached and "auto movement on" was applied
\* while it was.
C1_Witness ==
    /\ joystick_connected
    /\ applied = <<"joystick_connected", "auto_movement_on">>

\* C2: from a detached actor with auto_movement and auto_blink on, 0x01 then
\* 0x00 leaves the controller detached, both flags on and auto_pupil at its
\* pre-attach value.
C2_AttachDetachRestores ==
    (/\ applied = <<"joystick_connected", "joystick_disconnected">>
     /\ pre_attach.movement /\ pre_attach.blink)
    => (/\ ~joystick_connected
        /\ auto_movement /\ auto_blink
        /\ auto_pupil = pre_attach.pupil)

C2_Witness ==
    /\ applied = <<"joystick_connected", "joystick_disconnected">>
    /\ pre_attach.movement /\ pre_attach.blink /\ ~pre_attach.pupil
    /\ message_queue = <<>>

\* C3 as stated: from a detached actor with auto_movement on, 0x01, 0x10,
\* 0x00 leaves auto_movement on.
C3_Original ==
    (/\ applied = <<"joystick_connected", "auto_movement_off", "joystick_disconnected">>
     /\ pre_attach.movement)
    => auto_movement

\* C3 amended: from a detached actor with auto_movement on, 0x01, 0x10, 0x00
\* leaves the controller detached and auto_movement off: the 0x10 applied
\* while attached replaced the stored value that detach restores.
C3_ToggleWhileAttachedSurvivesDetach ==
    (/\ applied = <<"joystick_connected", "auto_movement_off", "joystick_disconnected">>
     /\ pre_attach.movement)
    => (~joystick_connected /\ ~auto_movement /\ ~prev_auto_movement)

C3_Witness ==
    /\ applied = <<"joystick_connected", "auto_movement_off", "joystick_disconnected">>
    /\ pre_attach.movement

ToggleNames ==
    {"auto_movement_on", "auto_movement_off", "auto_blink_on", "auto_blink_off",
     "auto_pupil_on", "auto_pupil_off"}

\* C4: while a controller is attached, applying an auto toggle changes only
\* the stored pre-attach value of its own flag: the three live flags, the
\* attachment and the two other stored values are unchanged by the step.
C4_ToggleWhileAttachedFrame ==
    [][(/\ ProcessStep
        /\ joystick_connected
        /\ Head(message_queue)[1] \in ToggleNames)
       => LET name == Head(message_queue)[1]
          IN  /\ UNCHANGED <<auto_movement, auto_blink, auto_pupil, joystick_connected>>
              /\ prev_auto_movement' =
                   IF name = "auto_movement_on" THEN TRUE
                   ELSE IF name = "auto_movement_off" THEN FALSE ELSE prev_auto_movement
              /\ prev_auto_blink' =
                   IF name = "auto_blink_on" THEN TRUE
                   ELSE IF name = "auto_blink_off" THEN FALSE ELSE prev_auto_blink
              /\ prev_auto_pupil' =
                   IF name = "auto_pupil_on" THEN TRUE
                   ELSE IF name = "auto_pupil_off" THEN FALSE ELSE prev_auto_pupil]_vars

\* C4's case: "auto blink on" was applied to an attached actor whose live
\* auto_blink was off; the stored value is on, the live flag still off.
C4_Witness ==
    /\ joystick_connected
    /\ applied = <<"joystick_connected", "auto_blink_on">>
    /\ ~pre_attach.blink /\ ~auto_blink /\ prev_auto_blink

\* C5: when 0x00 is processed the live flags return to the values they held
\* just before the controller became attached, also when 0x01 was received
\* again while attached.  Stated for the runs with no toggle since the attach
\* (0x01 ... 0x01, 0x00), where the stored values were not meant to change.
C5_DetachRestoresPreAttach ==
    (/\ applied # <<>> /\ applied # <<"...">>
     /\ applied[Len(applied)] = "joystick_disconnected"
     /\ \A i \in 1..(Len(applied) - 1) : applied[i] = "joystick_connected")
    => (/\ auto_movement = pre_attach.movement
        /\ auto_blink = pre_attach.blink
        /\ auto_pupil = pre_attach.pupil)

\* C6: no datagram is fatal: the receive thread survives every datagram, so
\* that the valid commands after a malformed one are still decoded and
\* queued.
C6_ReceiveThreadSurvives == udp_alive

\* ------------------------------------------- properties: Thermal Tracker

IsSensorPacket(p) == p.src = "sensor"

\* The packets sensor_loop itself put on the eye port, in send order.
SensorSent == SelectSeq(eye_port, IsSensorPacket)

\* The packets the step puts on the eye port.
StepPackets == SubSeq(eye_port', Len(eye_port) + 1, Len(eye_port'))

SensorBodyStep == sensor_pc = "body" /\ sensor_pc' # "body"
SensorFirstStep == sensor_pc = "first" /\ sensor_pc' # "first"

GazeAfterConnect(S) ==
    \A i \in 1..Len(S) :
        S[i].data[1] = 32 =>
            \E j \in 1..(i - 1) :
                /\ S[j].data = <<1>>
                /\ \A k \in (j + 1)..(i - 1) : S[k].data # <<0>>

\* C7: among the packets the sensor loop sends, every 0x20 has a 0x01 before
\* it with no 0x00 between the two; and every step that takes
\* tracking_active from true to false comes with a 0x00: the sensor loop
\* sends it in that step, stop() has sent it in the statement before.
C7_ConnectBeforeGazeReleaseOnIdle ==
    /\ [](GazeAfterConnect(SensorSent))
    /\ [][(tracking_active /\ ~tracking_active')
          => IF sensor_pc' # sensor_pc
               THEN StepPackets = <<DisconnectPacket("sensor")>>
               ELSE /\ stop_pc = "clear"
                    /\ \E i \in 1..Len(eye_port) :
                          eye_port[i] = DisconnectPacket("stop")]_vars

\* C7's case: the loop released the eyes and took them again, sending a gaze
\* packet after its second 0x01.
C7_Witness ==
    \E i, j, k \in 1..Len(SensorSent) :
        /\ 1 < i /\ i < j /\ j < k
        /\ SensorSent[i].data = <<0>>
        /\ SensorSent[j].data = <<1>>
        /\ SensorSent[k].data[1] = 32

\* C8: when the tracker is stopped while tracking, the last packet on the
\* eye port once stop() has joined the sensor thread is 0x00.
C8_LastPacketIsDetach ==
    (stop_pc = "stopped" /\ stop_found_tracking)
    => eye_port[Len(eye_port)].data = <<0>>

\* C9: an iteration that finds magnitude above the threshold while idle sends
\* exactly one 0x01, sets smoothed to the raw (x, y) and enters tracking, and
\* its remainder sets last_sent to the raw (x, y) and sends exactly one 0x20
\* for it; an iteration above the threshold while tracking sends no 0x01; an
\* iteration at or below the threshold while tracking sends exactly one 0x00
\* and leaves tracking; one while idle sends nothing.
C9_HysteresisPerIteration ==
    [][/\ (SensorBodyStep /\ pixels_valid') =>
            IF tick_magnitude' > DetectionThreshold
              THEN IF ~tracking_active
                     THEN /\ StepPackets = <<ConnectPacket("sensor")>>
                          /\ smoothed_x' = tick_x' /\ smoothed_y' = tick_y'
                          /\ tracking_active'
                          /\ sensor_pc' = "first"
                     ELSE /\ \A i \in 1..Len(StepPackets) : StepPackets[i].data[1] = 32
                          /\ Len(StepPackets) <= 1
                          /\ tracking_active'
              ELSE /\ StepPackets = IF tracking_active
                                      THEN <<DisconnectPacket("sensor")>>
                                      ELSE <<>>
                   /\ ~tracking_active'
       /\ SensorFirstStep =>
            /\ StepPackets = <<EyePositionPacket("sensor", tick_x, tick_y)>>
            /\ last_sent_x' = tick_x /\ last_sent_y' = tick_y
            /\ smoothed_x = tick_x /\ smoothed_y = tick_y]_vars

\* C9's case: three iterations, above the threshold twice and then below: one
\* 0x01, the first 0x20, a second 0x20 for the moved target, one 0x00.
C9_Witness ==
    /\ ticks = 3
    /\ Len(SensorSent) = 5
    /\ SensorSent[2].data = <<1>>
    /\ SensorSent[3].data[1] = 32
    /\ SensorSent[4].data[1] = 32
    /\ SensorSent[5].data = <<0>>
    /\ ~tracking_active

\* C10: as long as every reading had magnitude at or below the detection
\* threshold, the sensor loop has sent no 0x20, no 0x01 and at most one
\* 0x00, the one it sends before its first iteration.
C10_NothingBelowThreshold ==
    ~ever_above => SensorSent \in {<<>>, <<DisconnectPacket("sensor")>>}

\* C10's case: every iteration the bound allows has run, the last of them on
\* a reading of magnitude exactly 5.0, and nothing but the initial 0x00 went
\* out.
C10_Witness ==
    /\ ~ever_above
    /\ ticks >= 3
    /\ pixels_valid /\ tick_magnitude = DetectionThreshold
    /\ SensorSent = <<DisconnectPacket("sensor")>>

\* C11: a tracking iteration after the first smooths the raw position and
\* sends a 0x20 for the smoothed position if and only if it lies at least
\* position_threshold from the last one sent on either axis; last_sent
\* becomes the smoothed position exactly when the 0x20 is sent; and once the
\* iteration is over both distances are below position_threshold.
C11_SendOnlyOnSignificantChange ==
    /\ []((tracking_active /\ sensor_pc \in {"while", "body", "done"})
            => /\ Abs(smoothed_x - last_sent_x) < PositionThreshold
               /\ Abs(smoothed_y - last_sent_y) < PositionThreshold)
    /\ [][(/\ SensorBodyStep
           /\ tracking_active
           /\ pixels_valid'
           /\ tick_magnitude' > DetectionThreshold)
          => LET moved == \/ Abs(smoothed_x' - last_sent_x) >= PositionThreshold
                          \/ Abs(smoothed_y' - last_sent_y) >= PositionThreshold
             IN  /\ smoothed_x' = (smoothed_x * Smoothing + tick_x' * (100 - Smoothing)) \div 100
                 /\ smoothed_y' = (smoothed_y * Smoothing + tick_y' * (100 - Smoothing)) \div 100
                 /\ StepPackets = IF moved
                                    THEN <<EyePositionPacket("sensor", smoothed_x', smoothed_y')>>
                                    ELSE <<>>
                 /\ last_sent_x' = IF moved THEN smoothed_x' ELSE last_sent_x
                 /\ last_sent_y' = IF moved THEN smoothed_y' ELSE last_sent_y]_vars

\* C11's case: three tracking iterations; the second moved the smoothed
\* position by exactly position_threshold on x and sent it, the third moved
\* it by less and sent nothing.
C11_Witness ==
    /\ ticks = 3 /\ tracking_active /\ sensor_pc = "while"
    /\ Len(SensorSent) = 4
    /\ SensorSent[3].data[1] = 32
    /\ SensorSent[4] = EyePositionPacket("sensor", last_sent_x, last_sent_y)
    /\ Abs(last_sent_x - tick_x) > 2 * PositionThreshold
    /\ smoothed_x # last_sent_x

\* C12: an iteration whose sensor read failed sends no 0x20; if the tracker
\* was tracking it sends exactly one 0x00 and leaves tracking, otherwise it
\* sends nothing; smoothed and last_sent keep their values; and the loop goes
\* on to its next iteration, which reads again.
C12_FailedReadIsIdle ==
    [][(SensorBodyStep /\ ~pixels_valid')
       => /\ StepPackets = IF tracking_active
                             THEN <<DisconnectPacket("sensor")>>
                             ELSE <<>>
          /\ ~tracking_active'
          /\ sensor_pc' = "while"
          /\ UNCHANGED <<smoothed_x, smoothed_y, last_sent_x, last_sent_y>>]_vars

\* C12's case: the read failed while tracking, the eyes were released, and
\* the next iteration read again and took them back.
C12_Witness ==
    /\ prev_read_failed /\ pixels_valid
    /\ tracking_active /\ sensor_pc = "while"
    /\ \E i \in 1..Len(SensorSent) :
          /\ i + 3 = Len(SensorSent)
          /\ SensorSent[i].data[1] = 32
          /\ SensorSent[i + 1].data = <<0>>
          /\ SensorSent[i + 2].data = <<1>>
          /\ SensorSent[i + 3].data[1] = 32

IsConnect(p) == p.data = <<1>>

\* The idle-to-tracking transitions whose first iteration is over.
TakeoversDone ==
    Len(SelectSeq(SensorSent, IsConnect)) - (IF sensor_pc = "first" THEN 1 ELSE 0)

\* C13: with the detection sound enabled the sound port has received exactly
\* one packet per idle-to-tracking transition, 0x60 + filename + NUL when a
\* file is configured and 0x61 otherwise, and nothing else; with it disabled
\* the sound port has received nothing.
C13_OneSoundPerTakeover ==
    IF enable_detection_sound
      THEN sound_port =
             [i \in 1..TakeoversDone |->
                Packet("sensor", IF detection_sound_file # ""
                                   THEN <<96, detection_sound_file, 0>>
                                   ELSE <<97>>)]
      ELSE sound_port = <<>>

\* C13's case: a file is configured, the tracker took the eyes twice and is
\* tracking on, and the sound port holds two packets.
C13_Witness ==
    /\ enable_detection_sound /\ detection_sound_file # ""
    /\ Len(sound_port) = 2
    /\ ticks >= 4 /\ tracking_active /\ sensor_pc = "while"

\* ---------------------------------------------- properties: Sound Player

\* C14: at most one playback worker thread is alive, in every reachable state
\* of the Sound Player.
C14_AtMostOneWorkerAlive ==
    Cardinality({w \in 1..MaxCommands : Alive(w)}) <= 1

ReceiveStep == handled' = handled + 1

\* The 0x60 requests whose filename is found neither as given nor with an
\* extension appended.
NamesMissingFile(data) ==
    /\ sound_decode_message(data)[1] = "play_specific"
    /\ ~Exists(sound_decode_message(data)[2])
    /\ Candidates(sound_decode_message(data)[2]) = {}

C16_SaveLoadRoundTrip ==
    file_pc = "loaded"
    => /\ ~bundle.raised
       /\ bundle.eye_frames = eye_data
       /\ bundle.mouth_frames = mouth_data
       /\ PathExists(audio_path) => bundle.audio_data = Entry(audio_content)

\* C16's case: two eye frames and two mouth frames with interleaved times and
\* a non-empty audio file came back from the file.
C16_Witness ==
    /\ file_pc = "loaded"
    /\ Len(eye_data) = 2 /\ Len(mouth_data) = 2
    /\ eye_data[1][1] < mouth_data[1][1] /\ mouth_data[1][1] < eye_data[2][1]
    /\ eye_data[1][4] /\ ~eye_data[2][4]
    /\ PathExists(audio_path) /\ audio_content # <<>>
    /\ bundle.eye_frames = eye_data /\ bundle.audio_data.bytes = audio_content

\* time_ms of the data rows of a CSV, in file order.
CsvTimes(csv) == [i \in 1..(Len(csv) - 1) |-> ParseInt(csv[i + 1][1])]

\* C17: the rows of the animation.csv written by save_bundle are in
\* ascending time_ms order across the two tracks, equal times in input
\* order: the rows save_to_csv writes for the same tracks.
C17_BundleRowsSorted ==
    file_pc # "recorded"
    => /\ \A i, j \in 1..Len(CsvTimes(bundle_file.animation)) :
            i < j => CsvTimes(bundle_file.animation)[i] <= CsvTimes(bundle_file.animation)[j]
       /\ bundle_file.animation = save_to_csv(eye_data, mouth_data)

\* ---------------------------------------------- properties: Bundle Player

\* Playback is over and the button thread has sent all it was handed.
PlaybackOver ==
    /\ play_pc = "ended"
    /\ button_command_queue = <<>>
    /\ button_command.sends_left = 0

IsGaze(packet) == packet[1] = 32

\* C20: once a bundle without audio has been played, the gaze packets sent
\* are those of the eye frames, one per frame in frame order, and the mouth
\* packets those of the mouth frames, one per frame in frame order.
C20_EachFrameOnceInOrder ==
    PlaybackOver
    => /\ SelectSeq(eye_socket_sent, IsGaze) =
            [i \in 1..Len(player_eye_data) |->
               EyePositionCommand(player_eye_data[i][2], player_eye_data[i][3])]
       /\ mouth_socket_sent =
            [i \in 1..Len(player_mouth_data) |-> <<80, player_mouth_data[i][2]>>]

\* C21: while a bundle without audio is played, no movement is played at or
\* after max_time + 100 ms of elapsed time, so play_bundle(loop=False) ends.
C21_EndsAfterLastFrame ==
    (play_pc = "loop" /\ current_audio = NoPath /\ player_is_playing)
    => current_time < max_time + EndMargin

\* -------------------------------------------- properties: Animation Daemon

\* The last step was a call of prepare_bundle that returned False.
PrepareFailed ==
    /\ Len(prepare_calls') = Len(prepare_calls) + 1
    /\ last_prepare' = "failed"

\* C18: a prepare_bundle that fails leaves the loaded tracks, the loaded
\* audio with its temp file, and the playing state as they were.
C18_FailedPrepareKeepsState ==
    [][PrepareFailed =>
         UNCHANGED <<player_eye_data, player_mouth_data, current_audio, temp_files,
                     player_is_playing, mixer_busy>>]_vars

\* The path a request names lies inside the animations directory and is there.
InsideAndThere(filename) ==
    LET path == file_path(filename)
    IN  /\ filename # NoFile
        /\ Len(path) > Len(animations_dir)
        /\ \A i \in 1..Len(animations_dir) : path[i] = animations_dir[i]
        /\ path \in Directories \cup DOMAIN Bundles

PlayHandled(filename) ==
    /\ messages' = messages + 1
    /\ last_message' = PlayMessage(filename)

\* C19: every path handed to prepare_bundle or play_bundle is a canonical
\* path inside the animations directory that exists, and a play request for
\* any other path calls neither and leaves player and status as they were.
C19_OnlyInsideAnimationsDir ==
    /\ [](\A i \in 1..Len(prepare_calls) :
             /\ Len(prepare_calls[i]) > Len(animations_dir)
             /\ SubSeq(prepare_calls[i], 1, Len(animations_dir)) = animations_dir
             /\ prepare_calls[i] \in Directories \cup DOMAIN Bundles
             /\ prepare_calls[i] \notin DOMAIN Symlinks)
    /\ [](\A i \in 1..Len(play_calls) : \E j \in 1..Len(prepare_calls) :
             play_calls[i] = prepare_calls[j])
    /\ [][\A filename \in PlayFiles :
            PlayHandled(filename) /\ ~InsideAndThere(filename)
            => UNCHANGED <<prepare_calls, play_calls, bpVars, dmnState>>]_vars

\* A bundle was played, and then a request through the symbolic link that
\* leaves the directory was turned down.
C19_Witness ==
    /\ messages = 2
    /\ last_message = PlayMessage(Relative(<<"link.bundle">>))
    /\ Len(prepare_calls) = 1
    /\ Len(play_calls) = 1
    /\ daemon_pc = "idle"

\* C22: once a stop message has reached the daemon during a playback, no
\* movement later than the one due at that moment is played.
C22_StopEndsPlayback ==
    stop_clock >= 0 => current_time <= stop_clock

\* The daemon is back in its MQTT loop after a playback and the button
\* thread has sent all it was handed.
BackFromPlay ==
    /\ daemon_pc = "idle"
    /\ play_calls # <<>>
    /\ button_command_queue = <<>>
    /\ button_command.sends_left = 0

\* C23: after a playback has ended, 0x11 and 0x13 have been sent to the Eye
\* Actor later than every packet of the playback.
C23_AutonomyRestoredAfterPlay ==
    BackFromPlay
    => \E i, j \in 1..Len(eye_socket_sent) :
          /\ eye_socket_sent[i] = <<17>>
          /\ eye_socket_sent[j] = <<19>>
          /\ \A k \in 1..Len(eye_socket_sent) :
                eye_socket_sent[k][1] \in {32, 64, 65, 66, 67, 68} => (k < i /\ k < j)

\* ---------------------------------------------------- properties: Recorder

\* stop_recording has returned and no recording has been started since.
Stopped == session > 0 /\ ~is_recording /\ stop_pc_rec = "idle"

\* C24: once stop_recording has returned the record queue is empty, and
\* recorded_data never holds a sample of an earlier session.
C24_StopDrainsQueue ==
    /\ Stopped => record_queue = <<>>
    /\ \A i \in 1..Len(recorded_data) : recorded_data[i][1] = session

\* C25: time_ms is strictly increasing along recorded_data.
C25_TimeStrictlyIncreasing ==
    \A i, j \in 1..Len(recorded_data) :
       i < j => recorded_data[i][2] < recorded_data[j][2]

\* ------------------------------------------------- properties: Mouth Actor

\* The step is the main loop's pass for this datagram.
MouthGot(data) ==
    /\ mouth_received' = mouth_received + 1
    /\ mouth_last' = data

\* C26: a 0x50 p datagram ends any ease, sets current_position to p, sets
\* the servo for p and restarts the idle timer; a datagram with another
\* opcode changes none of current_position, is_easing and the idle timer.
C26_OnlySetPosition ==
    [][\A data \in MouthDatagrams :
         MouthGot(data) =>
           /\ (Len(data) = 2 /\ data[1] = 80)
                => /\ ~is_easing'
                   /\ current_position' = data[2]
                   /\ pulsewidth' = set_servo_position(data[2])
                   /\ since_activity' = 0
                   /\ commanded' = "udp"
           /\ (Len(data) >= 1 /\ data[1] # 80)
                => /\ UNCHANGED <<current_position, is_easing, since_activity, pulsewidth>>
                   /\ commanded' = "none"]_vars

\* A 0x50 arrived in the middle of an ease and ended it.
C26_Witness ==
    /\ commanded = "udp"
    /\ mouth_last = <<80, 200>>
    /\ current_position = 200
    /\ ~is_easing
    /\ ease_elapsed \in 1..(EaseDuration - 1)

Between(a, b, x) == (a <= x /\ x <= b) \/ (b <= x /\ x <= a)

\* The step is a pass of the main loop without a datagram.
MouthIdlePass == mouth_received' = mouth_received

\* C27: after IdleTimeout without a 0x50 and away from idle an ease starts
\* from the current position; every position the ease commands lies between
\* its start and idle; at idle and not easing no pass commands the servo; and
\* without further datagrams the actor comes to rest at idle.
C27_EasesBackToIdle ==
    /\ [][(MouthIdlePass /\ ~is_easing /\ since_activity >= IdleTimeout
             /\ current_position # IdlePosition)
          => (is_easing' /\ ease_start_position' = current_position)]_vars
    /\ [][commanded' = "ease"
          => /\ Between(ease_start_position', IdlePosition, current_position')
             /\ pulsewidth' = set_servo_position(current_position')]_vars
    /\ [][(MouthIdlePass /\ ~is_easing /\ current_position = IdlePosition)
          => UNCHANGED <<current_position, pulsewidth, is_easing>>]_vars
    /\ \A n \in 0..MaxDatagrams :
          (mouth_running /\ mouth_received = n /\ current_position # IdlePosition)
          ~> \/ current_position = IdlePosition /\ ~is_easing
             \/ mouth_received > n

\* An ease from 255 has just commanded idle and ended.
C27_Witness ==
    /\ commanded = "ease"
    /\ ease_start_position = 255
    /\ current_position = IdlePosition
    /\ ~is_easing
    /\ ease_elapsed = EaseDuration

\* ------------------------------------------------------------- C28 .. C30

RenderStep == frames' = frames + 1

\* C28: in every frame where a controller is attached or auto_movement is
\* off, the autonomous saccade driver is not advanced and the rendered gaze
\* is the most recently received 0x20 target, mapped as -30 + 60 * v.
C28_ExternalGazeRendered ==
    [][(RenderStep /\ (joystick_connected \/ ~auto_movement))
         => /\ UNCHANGED saccade
            /\ last_gaze # NoGaze
                 => /\ curX' = -300 + 6 * last_gaze[1]
                    /\ curY' = -300 + 6 * last_gaze[2]]_vars

\* The lid weight the blink and tracking logic gives an eye.
BlinkOrTracking(active, upper) ==
    IF active THEN 1000 ELSE IF upper THEN trackingPos' ELSE 1000 - trackingPos'

\* C29: an explicit left_eyelid position determines the rendered weight of
\* the left lids in the frames where auto_blink is off and no blink is active
\* on the left eye, a blink of the right eye notwithstanding; in every other
\* frame the weight comes from the blink and tracking logic.
C29_ExplicitLidWhenNoBlink ==
    [][(RenderStep /\ last_left_lid # <<>>)
         => IF ~auto_blink /\ ~blink_left_active
              THEN /\ leftUpperLidWeight' = 10 * Hundredths(last_left_lid[1])
                   /\ leftLowerLidWeight' = 10 * Hundredths(last_left_lid[1])
              ELSE /\ leftUpperLidWeight' = BlinkOrTracking(blink_left_active, TRUE)
                   /\ leftLowerLidWeight' = BlinkOrTracking(blink_left_active, FALSE)]_vars

\* What of the Eye Actor can be observed from outside: its flags, gaze, lids
\* and the picture it has drawn.
Visible == <<eyeFlags, eyeGaze, eyeLids, eyeBlink, curX, curY, lidWeights>>

\* The datagram of this step is the blink command op.
Processes(op) == last_blink'[1] = op /\ (last_blink[1] # op \/ last_blink'[2])

LeftCovered(op) == op \in {64, 65, 68, 69}
RightCovered(op) == op \in {66, 67, 68, 69}

C31_QuantisationRoundTrip ==
    calc_pc = "decoded" => calc_out * 255 = 100 * calc_in

\* round(n / d) as Python rounds a double: to nearest, a tie to even.
RoundHalfEven(n, d) ==
    LET q == n \div d
        r == n % d
    IN  IF 2 * r < d THEN q
        ELSE IF 2 * r > d THEN q + 1
        ELSE IF q % 2 = 0 THEN q ELSE q + 1

\* C39: send_eye_position maps v in [-1, +1] to round((v + 1) * 127.5),
\* clamped to [0, 255].
C39_RoundedByte ==
    calc_pc = "sent"
      => calc_byte = Clamp(RoundHalfEven((calc_in + 1000) * 1275, 10000), 0, 255)

\* A datagram the Mouth Actor cannot take as a command: an opcode it does
\* not know, nothing at all, or 0x50 with no payload byte.
MouthMalformed(data) == Len(data) < 2 \/ data[1] # 80

\* C32: a malformed datagram is dropped with the Mouth Actor's state
\* undisturbed, and the main loop keeps running.
C32_MalformedDropped ==
    [][\A data \in MouthDatagrams :
         (MouthGot(data) /\ MouthMalformed(data))
           => /\ mouth_running'
              /\ UNCHANGED <<current_position, is_easing, since_activity,
                             ease_start_position, ease_elapsed, pulsewidth>>]_vars

\* C33: once a BundlePlayer has been created and cleaned up and the Eye
\* Actor has taken all of its packets in send order, the actor is detached
\* with auto_movement, auto_blink and auto_pupil on.
C33_CleanupRestoresAutonomy ==
    (~player_running /\ delivered = Len(eye_socket_sent))
      => /\ ~joystick_connected
         /\ auto_movement /\ auto_blink /\ auto_pupil

\* C34: with auto_blink off and no blink active, both lids of the left eye
\* are rendered at p / 255 of the 0x30 command received last, in every frame
\* until another eyelid or blink command for that eye arrives.
C34_LidHoldsCommandedPosition ==
    [][(/\ RenderStep
        /\ ~auto_blink /\ ~blink_left_active /\ ~blink_right_active
        /\ last_left_lid # <<>>)
         => /\ leftUpperLidWeight' * 255 = 1000 * last_left_lid[1]
            /\ leftLowerLidWeight' * 255 = 1000 * last_left_lid[1]]_vars

PinnedClosed(upper, lower) == upper = 1000 /\ lower = 1000

\* C35: in every frame rendered while a commanded blink is active on an eye
\* both lid weights of that eye are 1.0, whatever auto_blink is and whatever
\* eyelid position was sent; in a frame rendered with no blink active on the
\* eye its lids are not pinned closed.
C35_BlinkPinsLids ==
    [][RenderStep
         => /\ PinnedClosed(leftUpperLidWeight', leftLowerLidWeight') <=> blink_left_active
            /\ PinnedClosed(rightUpperLidWeight', rightLowerLidWeight') <=> blink_right_active]_vars

\* A frame was rendered with the left eye in a commanded blink, auto_blink
\* off and an explicit position sent during the blink; the right eye is open.
C35_Witness ==
    /\ frames > 0
    /\ blink_left_active /\ ~blink_right_active
    /\ ~auto_blink
    /\ last_left_lid # <<>>
    /\ PinnedClosed(leftUpperLidWeight, leftLowerLidWeight)
    /\ ~PinnedClosed(rightUpperLidWeight, rightLowerLidWeight)

\* C36: a blink end command affects only its own eye: 0x41 leaves the right
\* eye's blink alone, 0x43 the left eye's, and 0x45 right after a solo 0x40
\* or 0x42 leaves that solo blink active.
C36_EndAffectsOwnBlink ==
    [][/\ Processes(65) => UNCHANGED blink_right_active
       /\ Processes(67) => UNCHANGED blink_left_active
       /\ (Processes(69) /\ last_blink[1] = 64) => blink_left_active'
       /\ (Processes(69) /\ last_blink[1] = 66) => blink_right_active']_vars

\* C37: once the Sound Player has processed a stop command, and as long as
\* no later datagram has arrived, no track is playing; also when the stop
\* overtakes a worker that has not yet set is_playing or is about to reset
\* stop_requested.
C37_StopSilences ==
    (last_request = <<98>> /\ main_pc = "recv") => ~music_busy

\* C38: the time_ms cell written for a recorded frame is a whole number,
\* with audio loaded or without, and loading it returns the recorded time.
C38_TimeWrittenAsInteger ==
    /\ editor_pc \in {"saved", "loaded"} => ParseFloat(time_cell) % 10 = 0
    /\ editor_pc = "loaded" => loaded_time_ms * 10 = editor_time

\* C40: in a bundle save_bundle wrote, the manifest names an audio file and
\* a format exactly when the archive holds audio.dat, and load_bundle
\* returns audio_data exactly when its metadata names an audio file.
C40_ManifestMatchesAudio ==
    /\ file_pc \in {"saved", "loaded"}
         => /\ bundle_file.manifest.audio_file # "null" <=> bundle_file.audio.present
            /\ bundle_file.manifest.audio_format # "null" <=> bundle_file.audio.present
    /\ (file_pc = "loaded" /\ ~bundle.raised)
         => (bundle.audio_data.present <=> bundle.metadata.audio_file # "null")

=============================================================================
